---- MODULE Spec2Model ----
(***************************************************************************)
(* A model of pymeta's token coercion (src/src/py/pymeta.py):              *)
(* Tokens._coerce and its nested helpers emit / push_group / pop_group /   *)
(* parse (parse_punct, parse_number, parse_str_literal) / process_one.     *)
(*                                                                         *)
(* Text is a sequence of one-character strings; index and start are the    *)
(* 0-based positions of the Python code (At, Slice translate them).        *)
(***************************************************************************)
EXTENDS Integers, Sequences, FiniteSets, TLC

\* Longest enumerated text fragment of a one-item call.
MaxLen == 3
\* Most items of an enumerated multi-item call.
MaxItems == 3

---------------------------------------------------------------------------
(* Python string helpers. *)

\* string[i] with a 0-based i.
At(s, i) == s[i + 1]

\* string[a:b] with 0-based a, b and Python's clamping of b.
Slice(s, a, b) ==
    LET hi == IF b > Len(s) THEN Len(s) ELSE b
    IN  IF a >= hi THEN << >> ELSE SubSeq(s, a + 1, hi)

\* The absent value of an optional string (a suffix, a prefix).
None == << >>

Last(s) == s[Len(s)]
Front(s) == SubSeq(s, 1, Len(s) - 1)

\* The characters between the quotes of repr(s), q the quote chosen.
RECURSIVE repr_body(_, _)
repr_body(s, q) ==
    IF s = << >> THEN << >>
    ELSE repr_body(Front(s), q)
         \o (IF Last(s) = "\\" THEN <<"\\", "\\">>
             ELSE IF Last(s) = q THEN <<"\\", q>>
             ELSE <<Last(s)>>)

\* repr(s) of a str of printable ASCII characters: single quotes, double
\* quotes when s has a single quote and no double quote.
py_repr(s) ==
    LET has(c) == \E k \in 1..Len(s) : s[k] = c
        q == IF has("'") /\ ~has("\"") THEN "\"" ELSE "'"
    IN  <<q>> \o repr_body(s, q) \o <<q>>

---------------------------------------------------------------------------
(* Character classes. *)

Lower == {"a", "b", "c", "d", "e", "f", "g", "h", "i", "j", "k", "l", "m",
          "n", "o", "p", "q", "r", "s", "t", "u", "v", "w", "x", "y", "z"}
Upper == {"A", "B", "C", "D", "E", "F", "G", "H", "I", "J", "K", "L", "M",
          "N", "O", "P", "Q", "R", "S", "T", "U", "V", "W", "X", "Y", "Z"}
DecDigits == {"0", "1", "2", "3", "4", "5", "6", "7", "8", "9"}

\* _pymeta.is_ident_start / is_ident_continue (native): XID_Start or '_',
\* XID_Continue, on the ASCII characters the model uses.
is_ident_start(c) == c \in Lower \cup Upper \cup {"_"}
is_ident_continue(c) == is_ident_start(c) \/ c \in DecDigits

\* str.isspace
Whitespace == {" ", "\t", "\n"}
isspace(c) == c \in Whitespace

\* parse_number.is_dec_digit / is_digit
is_dec_digit(c) == c \in DecDigits
is_digit(c) == c \in DecDigits \cup {"a", "b", "c", "d", "e", "f"}
                              \cup {"A", "B", "C", "D", "E", "F"}

\* The letters parse_number's loop accepts besides is_digit.
NumberLetters == {"_", "b", "o", "x", "e", "E", "u", "i", "f"}

---------------------------------------------------------------------------
(* Token classes. *)

\* Punct.CHARS, Punct.ALONE, Punct.JOINT
Punct_CHARS == {"=", "<", ">", "!", "~", "+", "-", "*", "/", "%", "^", "&",
                "|", "@", ".", ",", ";", ":", "#", "$", "?", "'"}
ALONE == "alone"
JOINT == "joint"

\* Group.PARENTHESIS, BRACKET, BRACE, NONE, DELIMITERS
PARENTHESIS == "()"
BRACKET == "[]"
BRACE == "{}"
DELIMITERS == {PARENTHESIS, BRACKET, BRACE, ""}
OpeningChars == {"(", "[", "{"}
ClosingChars == {")", "]", "}"}
OPENING_TO_DELIMITER(c) ==
    CASE c = "(" -> PARENTHESIS [] c = "[" -> BRACKET [] c = "{" -> BRACE
CLOSING_TO_DELIMITER(c) ==
    CASE c = ")" -> PARENTHESIS [] c = "]" -> BRACKET [] c = "}" -> BRACE

\* IntLiteral.SUFFIXES, FloatLiteral.SUFFIXES
IntSUFFIXES ==
    { <<a>> \o b : a \in {"u", "i"},
                   b \in { <<"8">>, <<"1", "6">>, <<"3", "2">>, <<"6", "4">>,
                           <<"1", "2", "8">>, <<"s", "i", "z", "e">> } }
FloatSUFFIXES == { <<"f", "3", "2">>, <<"f", "6", "4">> }

\* StrLiteral.CHR / STR / CSTR, BytesLiteral.BYTE / BYTES
CHR == "chr"
STR == "str"
CSTR == "cstr"
BYTE == "byte"
BYTES == "bytes"

\* Span.call_site(), the span of a token made without one.
call_site == "call_site"

\* Constructors: the token a successful __init__ builds.
Group(delimiter, tokens) ==
    [kind |-> "Group", delimiter |-> delimiter, tokens |-> tokens,
     span |-> call_site]
Ident(string) == [kind |-> "Ident", string |-> string, span |-> call_site]
Punct(chars, spacing) ==
    [kind |-> "Punct", chars |-> chars, spacing |-> spacing,
     span |-> call_site]
IntLiteral(value, suffix) ==
    [kind |-> "IntLiteral", value |-> value, suffix |-> suffix,
     span |-> call_site]
FloatLiteral(value, suffix) ==
    [kind |-> "FloatLiteral", value |-> value, suffix |-> suffix,
     span |-> call_site]
StrLiteral(value, type) ==
    [kind |-> "StrLiteral", value |-> value, type |-> type,
     span |-> call_site]
BytesLiteral(value, type) ==
    [kind |-> "BytesLiteral", value |-> value, type |-> type,
     span |-> call_site]

\* The token built with the argument span given.
WithSpan(token, span) == [token EXCEPT !.span = span]

\* The checks of the constructors: TRUE when __init__ raises nothing.
Punct_init_ok(chars, spacing) ==
    /\ \A k \in 1..Len(chars) : chars[k] \in Punct_CHARS
    /\ spacing \in {ALONE, JOINT}
IntLiteral_init_ok(suffix) == suffix = None \/ suffix \in IntSUFFIXES
FloatLiteral_init_ok(suffix) == suffix = None \/ suffix \in FloatSUFFIXES
StrLiteral_init_ok(value, type) ==
    /\ type \in {STR, CHR, CSTR}
    /\ type = CHR => Len(value) = 1
BytesLiteral_init_ok(value, type) ==
    /\ type \in {BYTE, BYTES}
    /\ type = BYTE => Len(value) = 1

\* Exceptions: the class and what the message says.
NoError == [type |-> "none", msg |-> "none"]
DelimiterMismatch == [type |-> "ValueError", msg |-> "Group delimiter mismatch"]
PopFromEmpty == [type |-> "IndexError", msg |-> "pop from empty list"]
InvalidNumber == [type |-> "ValueError", msg |-> "Invalid number literal"]
InvalidInt == [type |-> "ValueError", msg |-> "invalid literal for int()"]
InvalidSuffix == [type |-> "ValueError", msg |-> "invalid suffix"]
IncompleteString == [type |-> "ValueError", msg |-> "Incomplete string literal"]
NotSingleChar == [type |-> "ValueError", msg |-> "is not a single character"]
InvalidSyntax == [type |-> "ValueError", msg |-> "Invalid syntax near"]
\* The window of the message with its start at the index.
syntax_window_from_index(s, i) == Slice(s, i, i + 5)
\* string[max(index - 4, 0):index + 5]
syntax_window(s, i) == Slice(s, IF i - 4 > 0 THEN i - 4 ELSE 0, i + 5)
\* The ValueError of parse's else branch: the message ends with the repr of
\* the window.
InvalidSyntaxNear(s, i) ==
    [type |-> InvalidSyntax.type, msg |-> InvalidSyntax.msg,
     near |-> py_repr(syntax_window(s, i))]
CantCoerce == [type |-> "TypeError", msg |-> "can't be coerced into tokens"]
\* The class pattern memoryview(bts) on a memoryview: the class takes no
\* positional sub-pattern, and the match statement raises.
NoPositionalSubPattern ==
    [type |-> "TypeError", msg |-> "accepts 0 positional sub-patterns"]

---------------------------------------------------------------------------
(* The two regular expressions of parse_number and Python's int / float. *)

AllIn(s, S) == \A k \in 1..Len(s) : s[k] \in S

\* The position (1-based) of the first character of s in S, or Len(s) + 1.
FirstIn(s, S) ==
    IF \E k \in 1..Len(s) : s[k] \in S
    THEN CHOOSE k \in 1..Len(s) : s[k] \in S /\ \A j \in 1..(k - 1) : s[j] \notin S
    ELSE Len(s) + 1

DigitVal(c) ==
    CASE c = "0" -> 0 [] c = "1" -> 1 [] c = "2" -> 2 [] c = "3" -> 3
      [] c = "4" -> 4 [] c = "5" -> 5 [] c = "6" -> 6 [] c = "7" -> 7
      [] c = "8" -> 8 [] c = "9" -> 9

\* The value of a string of decimal digits and underscores.
RECURSIVE DecValue(_)
DecValue(s) ==
    IF s = << >> THEN 0
    ELSE IF Last(s) = "_" THEN DecValue(Front(s))
    ELSE 10 * DecValue(Front(s)) + DigitVal(Last(s))

\* (?P<num>(?:0[bo])?[\d_]+|0x[\da-fA-F_]+)
IntNumPattern(num) ==
    \/ /\ Len(num) >= 3
       /\ num[1] = "0" /\ num[2] \in {"b", "o"}
       /\ AllIn(SubSeq(num, 3, Len(num)), DecDigits \cup {"_"})
    \/ /\ Len(num) >= 1
       /\ AllIn(num, DecDigits \cup {"_"})
    \/ /\ Len(num) >= 3
       /\ num[1] = "0" /\ num[2] = "x"
       /\ AllIn(SubSeq(num, 3, Len(num)),
                DecDigits \cup {"a", "b", "c", "d", "e", "f"}
                          \cup {"A", "B", "C", "D", "E", "F", "_"})

\* (?P<suffix>[ui]\d+)? and (?P<suffix>f\d+)?: the empty rest is the absent group.
SuffixPattern(suffix, letters) ==
    \/ suffix = << >>
    \/ /\ Len(suffix) >= 2
       /\ suffix[1] \in letters
       /\ AllIn(SubSeq(suffix, 2, Len(suffix)), DecDigits)

\* Neither pattern's num can hold the suffix letter, so the suffix group, if
\* any, starts at the first such letter.
IntSplit(segment) == FirstIn(segment, {"u", "i"})
IntNum(segment) == SubSeq(segment, 1, IntSplit(segment) - 1)
IntSuffix(segment) == SubSeq(segment, IntSplit(segment), Len(segment))
IntMatch(segment) ==
    IntNumPattern(IntNum(segment)) /\ SuffixPattern(IntSuffix(segment), {"u", "i"})

\* (?P<num>\d+\.\d*(?:[eE][+-]?\d+)?): a segment never holds a sign.
FloatNumPattern(num) ==
    LET dot == FirstIn(num, {"."})
        rest == SubSeq(num, dot + 1, Len(num))
        ex == FirstIn(rest, {"e", "E"})
    IN  /\ dot >= 2 /\ dot <= Len(num)
        /\ AllIn(SubSeq(num, 1, dot - 1), DecDigits)
        /\ AllIn(SubSeq(rest, 1, ex - 1), DecDigits)
        /\ ex <= Len(rest) =>
             /\ ex < Len(rest)
             /\ AllIn(SubSeq(rest, ex + 1, Len(rest)), DecDigits)

FloatSplit(segment) == FirstIn(segment, {"f"})
FloatNum(segment) == SubSeq(segment, 1, FloatSplit(segment) - 1)
FloatSuffix(segment) == SubSeq(segment, FloatSplit(segment), Len(segment))
FloatMatch(segment) ==
    FloatNumPattern(FloatNum(segment)) /\ SuffixPattern(FloatSuffix(segment), {"f"})

\* int(num) in base 10: digits with single underscores between them; a radix
\* prefix is a ValueError.
py_int_ok(num) ==
    /\ num # << >>
    /\ AllIn(num, DecDigits \cup {"_"})
    /\ num[1] # "_" /\ Last(num) # "_"
    /\ \A k \in 1..(Len(num) - 1) : ~(num[k] = "_" /\ num[k + 1] = "_")
py_int(num) == DecValue(num)

\* float(num) as <<m, e>>, the value m * 10^e with m not a multiple of 10.
RECURSIVE NormFloat(_, _)
NormFloat(m, e) ==
    IF m = 0 THEN <<0, 0>>
    ELSE IF m % 10 = 0 THEN NormFloat(m \div 10, e + 1)
    ELSE <<m, e>>
py_float(num) ==
    LET dot == FirstIn(num, {"."})
        rest == SubSeq(num, dot + 1, Len(num))
        ex == FirstIn(rest, {"e", "E"})
        frac == SubSeq(rest, 1, ex - 1)
        expo == IF ex <= Len(rest) THEN DecValue(SubSeq(rest, ex + 1, Len(rest))) ELSE 0
    IN  NormFloat(DecValue(SubSeq(num, 1, dot - 1) \o frac), expo - Len(frac))

---------------------------------------------------------------------------
(* emit / push_group / pop_group of Tokens._coerce, as functions of the     *)
(* group stack gs and the result list rs they close over.                  *)

\* emit without the test of the group stack: every token goes to the results.
emit_to_results(gs, rs, token) == [gs |-> gs, rs |-> Append(rs, token)]

\* emit(token): to the innermost open group, else to the results.
emit(gs, rs, token) ==
    IF gs # << >>
    THEN [gs |-> [gs EXCEPT ![Len(gs)].tokens = Append(@, token)], rs |-> rs]
    ELSE [gs |-> gs, rs |-> Append(rs, token)]

\* push_group(delim): a new empty Group on the stack.
push_group(gs, delim) == Append(gs, Group(OPENING_TO_DELIMITER(delim), << >>))

\* pop_group with the emit moved before the delimiter test.
pop_group_emit_first(gs, rs, delim) ==
    IF gs = << >>
    THEN [gs |-> gs, rs |-> rs, err |-> PopFromEmpty]
    ELSE [gs |-> emit(Front(gs), rs, Last(gs)).gs,
          rs |-> emit(Front(gs), rs, Last(gs)).rs,
          err |-> IF Last(gs).delimiter # CLOSING_TO_DELIMITER(delim)
                  THEN DelimiterMismatch ELSE NoError]

\* pop_group(delim): err is the exception raised, NoError when none is.
pop_group(gs, rs, delim) ==
    IF gs = << >>
    THEN [gs |-> gs, rs |-> rs, err |-> PopFromEmpty]
    ELSE LET group == Last(gs)
             popped == Front(gs)
         IN  IF group.delimiter # CLOSING_TO_DELIMITER(delim)
             THEN [gs |-> popped, rs |-> rs, err |-> DelimiterMismatch]
             ELSE [gs |-> emit(popped, rs, group).gs,
                   rs |-> emit(popped, rs, group).rs,
                   err |-> NoError]

---------------------------------------------------------------------------
(* The items of a call, and the calls the model explores. *)

\* The kinds of process_one's match: text, an int, a built Token, and a value
\* of no coercible kind.
TextItem(s) == [kind |-> "str", string |-> s]
IntItem(v) == [kind |-> "int", value |-> v]
TokenItem(t) == [kind |-> "Token", token |-> t]
OtherItem == [kind |-> "other"]
\* A float; a bytes, bytearray or memoryview object (class cls) over the bytes
\* bts; a tuple and a list of items.
FloatItem(v) == [kind |-> "float", value |-> v]
BytesItem(cls, bts) == [kind |-> "bytes", class |-> cls, value |-> bts]
TupleItem(tup) == [kind |-> "tuple", items |-> tup]
ListItem(lst) == [kind |-> "list", items |-> lst]

\* The characters of the enumerated fragments.
Alphabet == {" ", "(", ")", "[", "-", "'", ".", "1", "a", "\"", "\\"}

Fragments(n) == UNION { [1..k -> Alphabet] : k \in 0..n }

\* Fragments the documentation names, and their neighbours.
Examples ==
    { <<"-", ">">>, <<"-", " ", ">">>, <<"'", "a">>, <<"'", "x", "'">>,
      <<"1", ".", ".", "1", "0">>, <<"1", ".", ".", "2">>,
      <<"1", ".", "f", "i", "e", "l", "d">>,
      <<"1", "0">>, <<"1", "u", "8">>, <<"0", "x", "F", "F">>,
      <<"1", ".", "5", "f", "6", "4">>, <<"1", ".", "5">>,
      <<"0", "x", "_", "F", "F", "_", "u", "8">>,
      <<"b", "\"", "a", "\"">>, <<"b", "'", "a", "'">>, <<"c", "\"", "a", "\"">>,
      <<"\"", "a", "\\", "\"", "b", "\"">>,
      <<"\"", "a", "\\", "\\", "\"", "b", "\"">>,
      <<"\"", "a", "b", "c">>, <<"\"", "a", "b", "c", "\"">>,
      <<"#", "@">>, <<"{", "a", "}">>, <<"(", "[", "a", "]", ")">>,
      <<"(", "a", "]">>, <<"\\">>, <<"a", "1", " ", "\\">>,
      <<"a", "b", "c", "d", "e", "\\", "f", "g", "h", "i", "j">> }

\* The items of the enumerated multi-item calls.
ShortItems ==
    { TextItem(<<"(">>), TextItem(<<")">>), TextItem(<<"[">>),
      TextItem(<<"a", "(">>), TextItem(<<"-", "]">>),
      TextItem(<<"'">>), TextItem(<<"a">>),
      IntItem(5), TokenItem(Ident(<<"t">>)), OtherItem }

Inputs ==
    { <<TextItem(f)>> : f \in Fragments(MaxLen) \cup Examples }
      \cup UNION { [1..k -> ShortItems] : k \in (0..MaxItems) \ {1} }

---------------------------------------------------------------------------
(* The state of one call of Tokens._coerce(items). *)

VARIABLES
    items,          \* the argument
    item_i,         \* the position of the loop over items (1-based)
    _results,       \* _results
    _group_stack,   \* _group_stack
    pc,             \* where the call is: "items", "parse", "punct", "ident",
                    \* "number", "number_body", "number_match", "str",
                    \* "str_emit", "done" (returned), "error" (raised)
    error,          \* the exception that left the call, NoError while none has
    ret,            \* the list returned
    string,         \* parse's argument
    index,          \* parse's cursor (0-based)
    start,          \* start of a sub-scanner (0-based)
    found_dot,      \* parse_number's found_dot
    char,           \* parse_number's char
    prefix,         \* parse_str_literal's prefix (None, <<"b">>, <<"c">>)
    quote,          \* parse_str_literal's quote
    content,        \* parse_str_literal's content
    opened,         \* history: the stack depth at each push_group so far
    frames          \* the calls of _coerce waiting for a nested call, made
                    \* by Tokens(items=...) for a tuple or list item

coerce_vars == <<items, item_i, _results, _group_stack, pc, error, ret, string,
                 index, start, found_dot, char, prefix, quote, content, opened,
                 frames>>

(* The state around the calls: the Token Lists that exist, the stack of    *)
(* active lists and the program that builds them.  A Tokens object is      *)
(* named by its path: <<r>> is the r-th list made by the program, and      *)
(* p \o <<k>> is the child list of the Group at position k of list p.      *)
VARIABLES
    lists,          \* the lists made by Tokens(...), each the value of _tokens
    _CTX_STACK,     \* Tokens._CTX_STACK, a sequence of paths
    scopes,         \* the lists entered by the program and not yet exited
    before,         \* history: _CTX_STACK as it was when each was entered
    call,           \* who runs _coerce: "_coerce" (called directly), "rust",
                    \* "Tokens", or "none" between two calls
    rust_ret,       \* what the last rust(...) returned: the path of the
                    \* returned Group's child list, None for None
    raised,         \* the exception the last operation raised to the program
    fatal,          \* Tokens.__exit__'s assertion has failed
    nested,         \* history: every exit so far was of the innermost scope
    ncalls          \* the calls of rust and Tokens made so far

ctx_vars == <<lists, _CTX_STACK, scopes, before, call, rust_ret, raised, fatal,
              nested, ncalls>>

(* The state of one call of Tokens._to_tokenstream().                      *)
VARIABLES
    self_tokens,    \* self._tokens of the list being flattened
    stream,         \* the sink: the operations it has received, in order
    flat_i,         \* the position of the loop over self (1-based)
    flat_pc         \* "none" (no call), "loop", "returned", "raised"

flat_vars == <<self_tokens, stream, flat_i, flat_pc>>

(* A round trip: the list built from text is rendered and the text lexed   *)
(* again, Tokens(str(tokens)).                                             *)
VARIABLES
    first,          \* the list the first call returned
    relexed         \* the second call has been made

rt_vars == <<first, relexed>>

(* What an earlier call of _coerce left behind when it ended. *)
VARIABLES
    left_open       \* history: the _group_stack of the call before this one
                    \* when it returned or raised

hist_vars == <<left_open>>

(* The names the program holds for Tokens objects: two names of one object *)
(* see each other's changes.                                               *)
VARIABLES
    names,          \* names[h]: the index in lists of the object name h refers to
    origin          \* history: origin[h] is the name whose range h was taken
                    \* from, 0 for the first list

list_vars == <<names, origin>>

\* Everything outside the builder.
aux_vars == <<flat_vars, rt_vars, hist_vars, list_vars>>

\* Everything outside a call of _coerce.
outer_vars == <<ctx_vars, aux_vars>>

vars == <<coerce_vars, outer_vars>>

locals == <<start, found_dot, char, prefix, quote, content>>

Init ==
    /\ items \in Inputs
    /\ item_i = 1
    /\ _results = << >>
    /\ _group_stack = << >>
    /\ pc = "items"
    /\ error = NoError
    /\ ret = << >>
    /\ string = << >>
    /\ index = 0
    /\ start = 0
    /\ found_dot = FALSE
    /\ char = ""
    /\ prefix = None
    /\ quote = ""
    /\ content = << >>
    /\ opened = << >>
    /\ frames = << >>
    /\ lists = << >>
    /\ _CTX_STACK = << >>
    /\ scopes = << >>
    /\ before = << >>
    /\ call = "_coerce"
    /\ rust_ret = None
    /\ raised = NoError
    /\ fatal = FALSE
    /\ nested = TRUE
    /\ ncalls = 0
    /\ self_tokens = << >>
    /\ stream = << >>
    /\ flat_i = 1
    /\ flat_pc = "none"
    /\ first = << >>
    /\ relexed = FALSE
    /\ left_open = << >>
    /\ names = << >>
    /\ origin = << >>

\* emit(token) on the call's own stack and results.
Emit(token) ==
    /\ _group_stack' = emit(_group_stack, _results, token).gs
    /\ _results' = emit(_group_stack, _results, token).rs

\* An exception leaves the call: nothing is returned.
Raise(e) ==
    /\ pc' = "error"
    /\ error' = e

---------------------------------------------------------------------------
(* process_one and the loop over items. *)

\* The call of _coerce that Tokens(items=tup) makes for a tuple or list item:
\* the calling frame waits, and the new call has its own _results and
\* _group_stack.
Frame(delimiter) ==
    [items |-> items, item_i |-> item_i, _results |-> _results,
     _group_stack |-> _group_stack, opened |-> opened,
     delimiter |-> delimiter]

\* The call for a tuple or list item made on the _group_stack of the waiting
\* call.
coerce_items_shared_stack(delimiter, nested_items) ==
    /\ frames' = Append(frames, Frame(delimiter))
    /\ items' = nested_items
    /\ item_i' = 1
    /\ _results' = << >>
    /\ UNCHANGED <<_group_stack, opened>>

coerce_items(delimiter, nested_items) ==
    /\ frames' = Append(frames, Frame(delimiter))
    /\ items' = nested_items
    /\ item_i' = 1
    /\ _results' = << >>
    /\ _group_stack' = << >>
    /\ opened' = << >>

\* for item in items: process_one(item)
process_one ==
    /\ pc = "items"
    /\ item_i <= Len(items)
    /\ LET item == items[item_i]
       IN  IF item.kind = "Token"
           THEN /\ Emit(item.token)
                /\ item_i' = item_i + 1
                /\ UNCHANGED <<items, pc, error, string, index, opened, frames>>
           ELSE IF item.kind = "int"
           THEN /\ Emit(IntLiteral(item.value, None))
                /\ item_i' = item_i + 1
                /\ UNCHANGED <<items, pc, error, string, index, opened, frames>>
           ELSE IF item.kind = "float"
           THEN /\ Emit(FloatLiteral(item.value, None))
                /\ item_i' = item_i + 1
                /\ UNCHANGED <<items, pc, error, string, index, opened, frames>>
           ELSE IF item.kind = "bytes" /\ item.class \in {"bytes", "bytearray"}
           THEN /\ Emit(BytesLiteral(item.value, BYTES))
                /\ item_i' = item_i + 1
                /\ UNCHANGED <<items, pc, error, string, index, opened, frames>>
           ELSE IF item.kind = "bytes"
           THEN /\ Raise(NoPositionalSubPattern)
                /\ UNCHANGED <<items, item_i, _results, _group_stack, string,
                               index, opened, frames>>
           ELSE IF item.kind = "tuple"
           THEN /\ coerce_items(PARENTHESIS, item.items)
                /\ UNCHANGED <<pc, error, string, index>>
           ELSE IF item.kind = "list"
           THEN /\ coerce_items(BRACKET, item.items)
                /\ UNCHANGED <<pc, error, string, index>>
           ELSE IF item.kind = "str"
           THEN /\ string' = item.string
                /\ index' = 0
                /\ pc' = "parse"
                /\ UNCHANGED <<items, item_i, _results, _group_stack, error,
                               opened, frames>>
           ELSE /\ Raise(CantCoerce)
                /\ UNCHANGED <<items, item_i, _results, _group_stack, string,
                               index, opened, frames>>
    /\ UNCHANGED <<ret, locals>>
    /\ UNCHANGED outer_vars

\* return _results: to the caller of _coerce, or, in the call made for a tuple
\* or list item, to process_one, which emits the Group of the returned tokens
\* in the waiting call.
Return ==
    /\ pc = "items"
    /\ item_i > Len(items)
    /\ IF frames = << >>
       THEN /\ pc' = "done"
            /\ ret' = _results
            /\ UNCHANGED <<items, item_i, _results, _group_stack, opened,
                           frames>>
       ELSE LET f == Last(frames)
                e == emit(f._group_stack, f._results,
                          Group(f.delimiter, _results))
            IN  /\ frames' = Front(frames)
                /\ items' = f.items
                /\ item_i' = f.item_i + 1
                /\ _group_stack' = e.gs
                /\ _results' = e.rs
                /\ opened' = f.opened
                /\ UNCHANGED <<pc, ret>>
    /\ UNCHANGED <<error, string, index, locals>>
    /\ UNCHANGED outer_vars

---------------------------------------------------------------------------
(* parse: one step is one pass of its while loop up to the point where a    *)
(* sub-scanner's own loop starts.                                          *)

\* The first test of parse_str_literal: what it sets, or that it returns False.
str_literal_head(s, i) ==
    IF At(s, i) \in {"b", "c"}
    THEN IF (i + 1) < Len(s) /\ At(s, i + 1) \in {"\"", "'"}
         THEN [ok |-> TRUE, prefix |-> <<At(s, i)>>, quote |-> At(s, i + 1),
               index |-> i + 2]
         ELSE [ok |-> FALSE, prefix |-> None, quote |-> "", index |-> i]
    ELSE IF At(s, i) \in {"\"", "'"}
         THEN [ok |-> TRUE, prefix |-> None, quote |-> At(s, i), index |-> i + 1]
         ELSE [ok |-> FALSE, prefix |-> None, quote |-> "", index |-> i]

parse ==
    /\ pc = "parse"
    /\ IF index >= Len(string)
       THEN \* parse returns to process_one, which returns to the loop
            /\ pc' = "items"
            /\ item_i' = item_i + 1
            /\ UNCHANGED <<_results, _group_stack, error, index, locals, opened>>
       ELSE LET c == At(string, index) IN
            IF isspace(c)
            THEN /\ index' = index + 1
                 /\ UNCHANGED <<item_i, _results, _group_stack, pc, error,
                                locals, opened>>
            ELSE IF c \in OpeningChars
            THEN /\ _group_stack' = push_group(_group_stack, c)
                 /\ opened' = Append(opened, Len(_group_stack))
                 /\ index' = index + 1
                 /\ UNCHANGED <<item_i, _results, pc, error, locals>>
            ELSE IF c \in ClosingChars
            THEN LET r == pop_group(_group_stack, _results, c) IN
                 /\ _group_stack' = r.gs
                 /\ _results' = r.rs
                 /\ IF r.err = NoError
                    THEN index' = index + 1 /\ UNCHANGED <<pc, error>>
                    ELSE Raise(r.err) /\ UNCHANGED index
                 /\ UNCHANGED <<item_i, locals, opened>>
            ELSE IF c \in Punct_CHARS
            THEN \* parse_punct up to its while loop
                 /\ start' = index
                 /\ index' = index + 1
                 /\ pc' = "punct"
                 /\ UNCHANGED <<item_i, _results, _group_stack, error, found_dot,
                                char, prefix, quote, content, opened>>
            ELSE IF is_ident_start(c)
            THEN /\ start' = index
                 /\ index' = index + 1
                 /\ pc' = "ident"
                 /\ UNCHANGED <<item_i, _results, _group_stack, error, found_dot,
                                char, prefix, quote, content, opened>>
            ELSE IF is_dec_digit(c)
            THEN \* parse_number up to its while loop
                 /\ start' = index
                 /\ index' = index + 1
                 /\ found_dot' = FALSE
                 /\ pc' = "number"
                 /\ UNCHANGED <<item_i, _results, _group_stack, error, char,
                                prefix, quote, content, opened>>
            ELSE IF str_literal_head(string, index).ok
            THEN \* parse_str_literal up to its while loop
                 /\ prefix' = str_literal_head(string, index).prefix
                 /\ quote' = str_literal_head(string, index).quote
                 /\ index' = str_literal_head(string, index).index
                 /\ content' = << >>
                 /\ pc' = "str"
                 /\ UNCHANGED <<item_i, _results, _group_stack, error, start,
                                found_dot, char, opened>>
            ELSE /\ Raise(InvalidSyntaxNear(string, index))
                 /\ UNCHANGED <<item_i, _results, _group_stack, index, locals,
                                opened>>
    /\ UNCHANGED <<items, ret, string>>
    /\ UNCHANGED frames
    /\ UNCHANGED outer_vars

\* The spacing without the look at the character after the apostrophe.
punct_spacing_no_lookahead(s, i) ==
    IF At(s, i - 1) = "'" /\ i < Len(s) THEN JOINT ELSE ALONE

\* The spacing parse_punct computes once its run has ended at index i.
punct_spacing(s, i) ==
    IF At(s, i - 1) = "'" /\ (i < Len(s) /\ is_ident_start(At(s, i)))
    THEN JOINT ELSE ALONE

\* parse_punct without its while loop: the token is the first character.
parse_punct_one_char ==
    /\ pc = "punct"
    /\ Emit(Punct(Slice(string, start, index), punct_spacing(string, index)))
    /\ pc' = "parse"
    /\ UNCHANGED <<items, item_i, error, ret, string, index, locals, opened>>
    /\ UNCHANGED frames
    /\ UNCHANGED outer_vars

\* parse_punct: one pass of its while loop, or the emit after it.
parse_punct ==
    /\ pc = "punct"
    /\ IF index < Len(string) /\ At(string, index) \in Punct_CHARS
       THEN /\ index' = index + 1
            /\ UNCHANGED <<_results, _group_stack, pc>>
       ELSE /\ Emit(Punct(Slice(string, start, index), punct_spacing(string, index)))
            /\ pc' = "parse"
            /\ UNCHANGED index
    /\ UNCHANGED <<items, item_i, error, ret, string, locals, opened>>
    /\ UNCHANGED frames
    /\ UNCHANGED outer_vars

\* The identifier branch of parse: one pass of its while loop, or the emit.
parse_ident ==
    /\ pc = "ident"
    /\ IF index < Len(string) /\ is_ident_continue(At(string, index))
       THEN /\ index' = index + 1
            /\ UNCHANGED <<_results, _group_stack, pc>>
       ELSE /\ Emit(Ident(Slice(string, start, index)))
            /\ pc' = "parse"
            /\ UNCHANGED index
    /\ UNCHANGED <<items, item_i, error, ret, string, locals, opened>>
    /\ UNCHANGED frames
    /\ UNCHANGED outer_vars

---------------------------------------------------------------------------
(* parse_number: the test of its while loop, the body of the loop, and the  *)
(* matching of the segment after it.                                       *)

\* while index < len(string): char = string[index]
parse_number_test ==
    /\ pc = "number"
    /\ IF index < Len(string)
       THEN char' = At(string, index) /\ pc' = "number_body"
       ELSE pc' = "number_match" /\ UNCHANGED char
    /\ UNCHANGED <<items, item_i, _results, _group_stack, error, ret, string,
                   index, start, found_dot, prefix, quote, content, opened>>
    /\ UNCHANGED frames
    /\ UNCHANGED outer_vars

\* The body of the loop: continue goes back to the test, with index as it is.
parse_number_body ==
    /\ pc = "number_body"
    /\ IF is_digit(char) \/ char \in NumberLetters
       THEN pc' = "number" /\ UNCHANGED found_dot
       ELSE IF char = "."
       THEN IF found_dot
            THEN pc' = "number_match" /\ UNCHANGED found_dot
            ELSE IF /\ (index + 1) < Len(string)
                    /\ \/ At(string, index + 1) = "."
                       \/ is_ident_start(At(string, index + 1))
            THEN pc' = "number_match" /\ UNCHANGED found_dot
            ELSE found_dot' = TRUE /\ pc' = "number"
       ELSE pc' = "number_match" /\ UNCHANGED found_dot
    /\ UNCHANGED <<items, item_i, _results, _group_stack, error, ret, string,
                   index, start, char, prefix, quote, content, opened>>
    /\ UNCHANGED frames
    /\ UNCHANGED outer_vars

\* segment = string[start:index], matched against the two patterns.
parse_number_match ==
    /\ pc = "number_match"
    /\ LET segment == Slice(string, start, index) IN
       IF IntMatch(segment)
       THEN IF ~py_int_ok(IntNum(segment))
            THEN Raise(InvalidInt) /\ UNCHANGED <<_results, _group_stack>>
            ELSE IF ~IntLiteral_init_ok(IntSuffix(segment))
            THEN Raise(InvalidSuffix) /\ UNCHANGED <<_results, _group_stack>>
            ELSE /\ Emit(IntLiteral(py_int(IntNum(segment)), IntSuffix(segment)))
                 /\ pc' = "parse"
                 /\ UNCHANGED error
       ELSE IF FloatMatch(segment)
       THEN IF ~FloatLiteral_init_ok(FloatSuffix(segment))
            THEN Raise(InvalidSuffix) /\ UNCHANGED <<_results, _group_stack>>
            ELSE /\ Emit(FloatLiteral(py_float(FloatNum(segment)),
                                      FloatSuffix(segment)))
                 /\ pc' = "parse"
                 /\ UNCHANGED error
       ELSE Raise(InvalidNumber) /\ UNCHANGED <<_results, _group_stack>>
    /\ UNCHANGED <<items, item_i, ret, string, index, locals, opened>>
    /\ UNCHANGED frames
    /\ UNCHANGED outer_vars

---------------------------------------------------------------------------
(* parse_str_literal: one pass of its while loop, and the emit after it. *)

\* bytes of content.encode(): one byte per ASCII character, as its code unit.
encode(s) == [k \in 1..Len(s) |-> [byte |-> s[k]]]

\* The loop of parse_str_literal without its escape cases: every character
\* but the quote is content, so the quote after a backslash closes.
parse_str_literal_no_escape ==
    /\ pc = "str"
    /\ IF index < Len(string)
       THEN IF At(string, index) = quote
            THEN /\ index' = index + 1
                 /\ pc' = "str_emit"
                 /\ UNCHANGED <<content, error>>
            ELSE /\ content' = Append(content, At(string, index))
                 /\ index' = index + 1
                 /\ UNCHANGED <<pc, error>>
       ELSE Raise(IncompleteString) /\ UNCHANGED <<index, content>>
    /\ UNCHANGED <<items, item_i, _results, _group_stack, ret, string, start,
                   found_dot, char, prefix, quote, opened>>
    /\ UNCHANGED frames
    /\ UNCHANGED outer_vars

\* The loop of parse_str_literal taking the end of the text as the closing
\* quote (a while loop without its else clause).
parse_str_literal_close_at_end ==
    /\ pc = "str"
    /\ IF index < Len(string)
       THEN parse_str_literal_no_escape
       ELSE /\ pc' = "str_emit"
            /\ UNCHANGED <<index, content, error>>
            /\ UNCHANGED <<items, item_i, _results, _group_stack, ret, string,
                           start, found_dot, char, prefix, quote, opened>>
    /\ UNCHANGED frames
    /\ UNCHANGED outer_vars

parse_str_literal ==
    /\ pc = "str"
    /\ IF index < Len(string)
       THEN IF At(string, index) = quote
            THEN /\ index' = index + 1
                 /\ pc' = "str_emit"
                 /\ UNCHANGED <<content, error>>
            ELSE LET t == Slice(string, index, index + 3) IN
                 /\ IF Len(t) >= 2 /\ t[1] = "\\" /\ t[2] = "\""
                    THEN content' = Append(content, "\"") /\ index' = index + 2
                    ELSE IF Len(t) >= 2 /\ t[1] = "\\" /\ t[2] = "'"
                    THEN content' = Append(content, "'") /\ index' = index + 2
                    ELSE IF Len(t) = 3 /\ t[1] = "\\" /\ t[2] = "\\" /\ t[3] = "\""
                    THEN content' = content \o <<"\\", "\"">> /\ index' = index + 3
                    ELSE IF Len(t) = 3 /\ t[1] = "\\" /\ t[2] = "\\" /\ t[3] = "'"
                    THEN content' = content \o <<"\\", "'">> /\ index' = index + 3
                    ELSE content' = Append(content, t[1]) /\ index' = index + 1
                 /\ UNCHANGED <<pc, error>>
       ELSE \* the loop's else: it ended without a break
            Raise(IncompleteString) /\ UNCHANGED <<index, content>>
    /\ UNCHANGED <<items, item_i, _results, _group_stack, ret, string, start,
                   found_dot, char, prefix, quote, opened>>
    /\ UNCHANGED frames
    /\ UNCHANGED outer_vars

parse_str_emit ==
    /\ pc = "str_emit"
    /\ LET is_char == quote = "'" IN
       IF prefix = None
       THEN IF StrLiteral_init_ok(content, IF is_char THEN CHR ELSE STR)
            THEN /\ Emit(StrLiteral(content, IF is_char THEN CHR ELSE STR))
                 /\ pc' = "parse"
                 /\ UNCHANGED error
            ELSE Raise(NotSingleChar) /\ UNCHANGED <<_results, _group_stack>>
       ELSE IF prefix = <<"b">>
       THEN IF BytesLiteral_init_ok(encode(content), IF is_char THEN BYTE ELSE BYTES)
            THEN /\ Emit(BytesLiteral(encode(content),
                                      IF is_char THEN BYTE ELSE BYTES))
                 /\ pc' = "parse"
                 /\ UNCHANGED error
            ELSE Raise(NotSingleChar) /\ UNCHANGED <<_results, _group_stack>>
       ELSE /\ Emit(StrLiteral(content, CSTR))
            /\ pc' = "parse"
            /\ UNCHANGED error
    /\ UNCHANGED <<items, item_i, ret, string, index, locals, opened>>
    /\ UNCHANGED frames
    /\ UNCHANGED outer_vars

---------------------------------------------------------------------------

\* One step of a call of _coerce: it touches the call's own state only.
coerce_step ==
    \/ process_one
    \/ Return
    \/ parse
    \/ parse_punct
    \/ parse_ident
    \/ parse_number_test
    \/ parse_number_body
    \/ parse_number_match
    \/ parse_str_literal
    \/ parse_str_emit

Next == coerce_step

Spec == Init /\ [][Next]_vars

\* The call runs on one thread and keeps running until it returns or raises.
FairSpec == Spec /\ WF_vars(Next)

---------------------------------------------------------------------------
(* The builder: a program that makes Token Lists, enters and exits them    *)
(* and calls rust.                                                         *)

MaxLists == 2       \* Token Lists the program has at once
MaxDepth == 2       \* scopes the program has open at once
MaxCalls == 2       \* calls of rust and of Tokens(...) the program makes

\* cls._CTX_STACK[-1] on an empty deque.
NoCurrentCtx == [type |-> "IndexError", msg |-> "deque index out of range"]
AssertionError == [type |-> "AssertionError", msg |-> "top is self"]

\* The arguments the program passes to Tokens(...).
TokensArgs ==
    { << >>,
      <<TextItem(<<"f">>), TextItem(<<"(", "1", ")">>)>>,
      <<TextItem(<<"a", " ", ")">>)>> }

\* The arguments the program passes to rust.
CallArgs ==
    { <<TextItem(<<"f">>), TextItem(<<"(", "1", ")">>)>>,
      <<TextItem(<<"{", "}">>)>>,
      <<TextItem(<<"-", "\"", "s", "\"">>)>>,
      <<TextItem(<<"a", " ", ")">>)>>,
      <<TextItem(<<"a">>), OtherItem>> }

\* The Token sequence reached from the sequence ts by descending through
\* the Groups at the positions of p.
RECURSIVE Child(_, _)
Child(ts, p) ==
    IF p = << >> THEN ts ELSE Child(ts[Head(p)].tokens, Tail(p))

\* The value of _tokens of the Tokens object at path p.
ListAt(ls, p) == Child(ls[Head(p)], Tail(p))

\* ts after list.extend(new) on the list reached through p.
RECURSIVE ExtendChild(_, _, _)
ExtendChild(ts, p, new) ==
    IF p = << >> THEN ts \o new
    ELSE LET g == ts[Head(p)]
         IN  [ts EXCEPT ![Head(p)] =
                 [g EXCEPT !.tokens = ExtendChild(g.tokens, Tail(p), new)]]

\* Tokens.extend(values) on the object at path p.
extend(ls, p, values) ==
    [ls EXCEPT ![Head(p)] = ExtendChild(ls[Head(p)], Tail(p), values)]

\* cls._CTX_STACK[-1]
_current_ctx == Last(_CTX_STACK)

\* The call's own state while no call of _coerce runs.
NoCall ==
    /\ items' = << >>
    /\ item_i' = 1
    /\ _results' = << >>
    /\ _group_stack' = << >>
    /\ pc' = "idle"
    /\ error' = NoError
    /\ ret' = << >>
    /\ string' = << >>
    /\ index' = 0
    /\ start' = 0
    /\ found_dot' = FALSE
    /\ char' = ""
    /\ prefix' = None
    /\ quote' = ""
    /\ content' = << >>
    /\ opened' = << >>
    /\ frames' = << >>

\* Tokens._coerce(args) is entered.
Call(args) ==
    /\ items' = args
    /\ pc' = "items"
    /\ UNCHANGED <<item_i, _results, _group_stack, error, ret, string, index,
                   start, found_dot, char, prefix, quote, content, opened,
                   frames>>

Ready == call = "none" /\ ~fatal


\* Tokens(*args): the constructor calls _coerce(args).
Tokens_init(args) ==
    /\ Ready
    /\ ncalls < MaxCalls
    /\ Len(lists) < MaxLists
    /\ Call(args)
    /\ call' = "Tokens"
    /\ ncalls' = ncalls + 1
    /\ UNCHANGED <<lists, _CTX_STACK, scopes, before, rust_ret, raised, fatal, nested>>
    /\ UNCHANGED aux_vars

\* _coerce has returned to the constructor: the new list exists.
Tokens_init_return ==
    /\ call = "Tokens"
    /\ pc = "done"
    /\ lists' = Append(lists, ret)
    /\ call' = "none"
    /\ raised' = NoError
    /\ NoCall
    /\ UNCHANGED <<_CTX_STACK, scopes, before, rust_ret, fatal, nested, ncalls>>
    /\ UNCHANGED aux_vars

\* Tokens.__enter__ of the object at path p.
Tokens_enter(p) ==
    /\ Ready
    /\ Len(scopes) < MaxDepth
    /\ _CTX_STACK' = Append(_CTX_STACK, p)
    /\ scopes' = Append(scopes, p)
    /\ before' = Append(before, _CTX_STACK)
    /\ raised' = NoError
    /\ UNCHANGED <<lists, call, rust_ret, fatal, nested, ncalls>>
    /\ UNCHANGED coerce_vars
    /\ UNCHANGED aux_vars

\* s without its k-th element.
Remove(s, k) == SubSeq(s, 1, k - 1) \o SubSeq(s, k + 1, Len(s))

\* Tokens.__exit__ popping from the other end of the deque (popleft).
Tokens_exit_popleft(k) ==
    /\ Ready
    /\ k \in 1..Len(scopes)
    /\ _CTX_STACK # << >>
    /\ LET self == scopes[k]
           top == Head(_CTX_STACK)
       IN  /\ _CTX_STACK' = Tail(_CTX_STACK)
           /\ fatal' = (top # self)
           /\ raised' = IF top # self THEN AssertionError ELSE NoError
    /\ nested' = (nested /\ k = Len(scopes))
    /\ scopes' = Remove(scopes, k)
    /\ before' = Remove(before, k)
    /\ UNCHANGED <<lists, call, rust_ret, ncalls>>
    /\ UNCHANGED coerce_vars
    /\ UNCHANGED aux_vars

\* Tokens.__exit__ testing the top before it pops: a failed assertion leaves
\* the stack as it was.
Tokens_exit_assert_first(k) ==
    /\ Ready
    /\ k \in 1..Len(scopes)
    /\ _CTX_STACK # << >>
    /\ LET self == scopes[k]
           top == Last(_CTX_STACK)
       IN  /\ _CTX_STACK' = IF top # self THEN _CTX_STACK
                                           ELSE Front(_CTX_STACK)
           /\ fatal' = (top # self)
           /\ raised' = IF top # self THEN AssertionError ELSE NoError
    /\ nested' = (nested /\ k = Len(scopes))
    /\ scopes' = Remove(scopes, k)
    /\ before' = Remove(before, k)
    /\ UNCHANGED <<lists, call, rust_ret, ncalls>>
    /\ UNCHANGED coerce_vars
    /\ UNCHANGED aux_vars

\* Tokens.__exit__ of the k-th open scope: top = pop(); assert top is self.
Tokens_exit(k) ==
    /\ Ready
    /\ k \in 1..Len(scopes)
    /\ _CTX_STACK # << >>
    /\ LET self == scopes[k]
           top == Last(_CTX_STACK)
       IN  /\ _CTX_STACK' = Front(_CTX_STACK)
           /\ fatal' = (top # self)
           /\ raised' = IF top # self THEN AssertionError ELSE NoError
    /\ nested' = (nested /\ k = Len(scopes))
    /\ scopes' = Remove(scopes, k)
    /\ before' = Remove(before, k)
    /\ UNCHANGED <<lists, call, rust_ret, ncalls>>
    /\ UNCHANGED coerce_vars
    /\ UNCHANGED aux_vars

\* Group.__enter__ of the Group rust returned: self.tokens.__enter__().
Group_enter ==
    /\ rust_ret # None
    /\ Tokens_enter(rust_ret)

\* Group.__exit__ of the k-th open scope, a Group: self.tokens.__exit__().
Group_exit(k) ==
    /\ k \in 1..Len(scopes)
    /\ Len(scopes[k]) > 1
    /\ Tokens_exit(k)

\* rust(*args): tokens = Tokens(*args).
rust(args) ==
    /\ Ready
    /\ ncalls < MaxCalls
    /\ Call(args)
    /\ call' = "rust"
    /\ ncalls' = ncalls + 1
    /\ UNCHANGED <<lists, _CTX_STACK, scopes, before, rust_ret, raised, fatal, nested>>
    /\ UNCHANGED aux_vars

\* What rust returns once ls holds the tokens: the last token if a Group.
rust_result(ls, p, tokens) ==
    IF Len(tokens) > 0 /\ Last(tokens).kind = "Group"
    THEN p \o <<Len(ListAt(ls, p))>>
    ELSE None

\* rust extending the bottom of the stack instead of the current list.
rust_return_bottom_ctx ==
    /\ call = "rust"
    /\ pc = "done"
    /\ IF _CTX_STACK = << >>
       THEN /\ raised' = NoCurrentCtx
            /\ UNCHANGED <<lists, rust_ret>>
       ELSE /\ lists' = extend(lists, Head(_CTX_STACK), ret)
            /\ rust_ret' = rust_result(lists', Head(_CTX_STACK), ret)
            /\ raised' = NoError
    /\ call' = "none"
    /\ NoCall
    /\ UNCHANGED <<_CTX_STACK, scopes, before, fatal, nested, ncalls>>
    /\ UNCHANGED aux_vars

\* Two builders of one process, each with a list of its own (the b-th of
\* lists) and with arguments that tell its calls of rust apart.
Builders == {1, 2}

BuilderArgs(b) ==
    IF b = 1 THEN <<TextItem(<<"f">>), TextItem(<<"(", "1", ")">>)>>
    ELSE <<TextItem(<<"-", "\"", "s", "\"">>)>>

\* The builder whose call of rust is running.
Caller == CHOOSE b \in Builders : items = BuilderArgs(b)

\* rust extending the list its own builder has entered, as if every builder
\* had a stack of its own.
rust_return_own_ctx ==
    /\ call = "rust"
    /\ pc = "done"
    /\ lists' = extend(lists, <<Caller>>, ret)
    /\ rust_ret' = rust_result(lists', <<Caller>>, ret)
    /\ raised' = NoError
    /\ call' = "none"
    /\ NoCall
    /\ UNCHANGED <<_CTX_STACK, scopes, before, fatal, nested, ncalls>>
    /\ UNCHANGED aux_vars

\* rust making a root list the current one when no list is entered.
rust_return_implicit_root ==
    /\ call = "rust"
    /\ pc = "done"
    /\ IF _CTX_STACK = << >>
       THEN /\ lists' = Append(lists, ret)
            /\ _CTX_STACK' = << <<Len(lists')>> >>
            /\ scopes' = Append(scopes, <<Len(lists')>>)
            /\ before' = Append(before, << >>)
            /\ rust_ret' = rust_result(lists', <<Len(lists')>>, ret)
            /\ raised' = NoError
       ELSE /\ lists' = extend(lists, _current_ctx, ret)
            /\ rust_ret' = rust_result(lists', _current_ctx, ret)
            /\ raised' = NoError
            /\ UNCHANGED <<_CTX_STACK, scopes, before>>
    /\ call' = "none"
    /\ NoCall
    /\ UNCHANGED <<fatal, nested, ncalls>>
    /\ UNCHANGED aux_vars

\* The rest of rust once Tokens(*args) has returned:
\* Tokens._current_ctx().extend(tokens) and the return value.
rust_return ==
    /\ call = "rust"
    /\ pc = "done"
    /\ IF _CTX_STACK = << >>
       THEN /\ raised' = NoCurrentCtx
            /\ UNCHANGED <<lists, rust_ret>>
       ELSE /\ lists' = extend(lists, _current_ctx, ret)
            /\ rust_ret' = rust_result(lists', _current_ctx, ret)
            /\ raised' = NoError
    /\ call' = "none"
    /\ NoCall
    /\ UNCHANGED <<_CTX_STACK, scopes, before, fatal, nested, ncalls>>
    /\ UNCHANGED aux_vars

\* A failed call that leaves behind what _coerce had emitted so far.
coerce_raise_keep_partial ==
    /\ call \in {"rust", "Tokens"}
    /\ pc = "error"
    /\ IF call = "rust" /\ _CTX_STACK # << >>
       THEN lists' = extend(lists, _current_ctx, _results)
       ELSE lists' = Append(lists, _results)
    /\ call' = "none"
    /\ raised' = error
    /\ NoCall
    /\ UNCHANGED <<_CTX_STACK, scopes, before, rust_ret, fatal, nested, ncalls>>
    /\ UNCHANGED aux_vars

\* _coerce has raised inside Tokens(*args), in rust or in the program: the
\* exception passes through both, no object is made, nothing is extended.
coerce_raise ==
    /\ call \in {"rust", "Tokens"}
    /\ pc = "error"
    /\ call' = "none"
    /\ raised' = error
    /\ NoCall
    /\ UNCHANGED <<lists, _CTX_STACK, scopes, before, rust_ret, fatal, nested, ncalls>>
    /\ UNCHANGED aux_vars

\* The main module at import: _CTX_STACK = deque(), and no list exists.
MainModuleStart ==
    /\ lists = << >>
    /\ _CTX_STACK = << >>
    /\ scopes = << >>
    /\ before = << >>

\* The stub module at import: the root list exists and is the current one.
StubModuleStart ==
    /\ lists = << << >> >>
    /\ _CTX_STACK = << <<1>> >>
    /\ scopes = << <<1>> >>
    /\ before = << << >> >>

\* The state at import, of either module.
BuilderInit ==
    /\ items = << >>
    /\ item_i = 1
    /\ _results = << >>
    /\ _group_stack = << >>
    /\ pc = "idle"
    /\ error = NoError
    /\ ret = << >>
    /\ string = << >>
    /\ index = 0
    /\ start = 0
    /\ found_dot = FALSE
    /\ char = ""
    /\ prefix = None
    /\ quote = ""
    /\ content = << >>
    /\ opened = << >>
    /\ frames = << >>
    /\ (MainModuleStart \/ StubModuleStart)
    /\ call = "none"
    /\ rust_ret = None
    /\ raised = NoError
    /\ fatal = FALSE
    /\ nested = TRUE
    /\ ncalls = 0
    /\ self_tokens = << >>
    /\ stream = << >>
    /\ flat_i = 1
    /\ flat_pc = "none"
    /\ first = << >>
    /\ relexed = FALSE
    /\ left_open = << >>
    /\ names = << >>
    /\ origin = << >>

BuilderNext ==
    \/ \E args \in TokensArgs : Tokens_init(args)
    \/ Tokens_init_return
    \/ \E r \in 1..MaxLists : r <= Len(lists) /\ Tokens_enter(<<r>>)
    \/ \E k \in 1..MaxDepth : Tokens_exit(k)
    \/ Group_enter
    \/ \E k \in 1..MaxDepth : Group_exit(k)
    \/ \E args \in CallArgs : rust(args)
    \/ rust_return
    \/ coerce_raise
    \/ coerce_step

BuilderSpec == BuilderInit /\ [][BuilderNext]_vars

---------------------------------------------------------------------------
(* Flattening: Tokens._to_tokenstream() and the _append_to_tokenstream of  *)
(* each token class.  The sink is the sequence of the calls it received;   *)
(* a child stream is the value handed to append_group.                     *)

MaxTokens == 3      \* tokens of a list handed to _to_tokenstream

\* The calls of _pymeta.TokenStream.
append_group(delimiter, child, span) ==
    [op |-> "append_group", delimiter |-> delimiter, stream |-> child,
     span |-> span]
append_ident(string_, span) ==
    [op |-> "append_ident", string |-> string_, span |-> span]
append_punct(char_, spacing, span) ==
    [op |-> "append_punct", char |-> char_, spacing |-> spacing, span |-> span]
append_int_literal(value, suffix, span) ==
    [op |-> "append_int_literal", value |-> value, suffix |-> suffix,
     span |-> span]
append_float_literal(value, suffix, span) ==
    [op |-> "append_float_literal", value |-> value, suffix |-> suffix,
     span |-> span]
append_str_literal(type, value, span) ==
    [op |-> "append_str_literal", type |-> type, value |-> value,
     span |-> span]
append_bytes_literal(type, value, span) ==
    [op |-> "append_bytes_literal", type |-> type, value |-> value,
     span |-> span]

\* What one _append_to_tokenstream did: the calls made on the stream, and
\* ok = FALSE when it raised ValueError("Punct token is empty").
Appended(ops) == [ops |-> ops, ok |-> TRUE]
PunctEmpty == [ops |-> << >>, ok |-> FALSE]

\* Punct._append_to_tokenstream giving every call the token's own spacing.
Punct_append_own_spacing(self) ==
    IF Len(self.chars) = 0 THEN PunctEmpty
    ELSE Appended([k \in 1..Len(self.chars) |->
                      append_punct(self.chars[k], self.spacing, self.span)])

\* Punct._append_to_tokenstream
Punct_append_to_tokenstream(self) ==
    IF Len(self.chars) = 0 THEN PunctEmpty
    ELSE Appended(
           [k \in 1..(Len(self.chars) - 1) |->
               append_punct(self.chars[k], JOINT, self.span)]
           \o <<append_punct(Last(self.chars), self.spacing, self.span)>>)

RECURSIVE _to_tokenstream(_)

\* Group._append_to_tokenstream writing the children to the parent stream.
Group_append_inline(self) ==
    LET child == _to_tokenstream(self.tokens) IN
    IF ~child.ok THEN PunctEmpty
    ELSE Appended(<<append_group(self.delimiter, << >>, self.span)>>
                  \o child.stream)

\* Group._append_to_tokenstream
Group_append_to_tokenstream(self) ==
    LET child == _to_tokenstream(self.tokens) IN
    IF ~child.ok THEN PunctEmpty
    ELSE Appended(<<append_group(self.delimiter, child.stream, self.span)>>)

\* token._append_to_tokenstream(stream), by the class of the token.
_append_to_tokenstream(token) ==
    CASE token.kind = "Group" -> Group_append_to_tokenstream(token)
      [] token.kind = "Punct" -> Punct_append_to_tokenstream(token)
      [] token.kind = "Ident" ->
           Appended(<<append_ident(token.string, token.span)>>)
      [] token.kind = "IntLiteral" ->
           Appended(<<append_int_literal(token.value, token.suffix,
                                         token.span)>>)
      [] token.kind = "FloatLiteral" ->
           Appended(<<append_float_literal(token.value, token.suffix,
                                           token.span)>>)
      [] token.kind = "StrLiteral" ->
           Appended(<<append_str_literal(token.type, token.value,
                                         token.span)>>)
      [] token.kind = "BytesLiteral" ->
           Appended(<<append_bytes_literal(token.type, token.value,
                                           token.span)>>)

\* Tokens._to_tokenstream() of a list with these tokens: the stream it
\* returns, ok = FALSE when a token raised.
_to_tokenstream(tokens) ==
    IF tokens = << >> THEN [stream |-> << >>, ok |-> TRUE]
    ELSE LET before_ == _to_tokenstream(Front(tokens))
             last == _append_to_tokenstream(Last(tokens))
         IN  IF ~before_.ok THEN before_
             ELSE [stream |-> before_.stream \o last.ops, ok |-> last.ok]

\* The tokens the flattened lists are made of.
FlatTokens ==
    { WithSpan(Ident(<<"a">>), "s1"),
      Punct(<<"-">>, ALONE),
      WithSpan(Punct(<<"-", ">">>, JOINT), "s1"),
      WithSpan(Punct(<<"<", "<", "=">>, ALONE), "s2"),
      Punct(<< >>, ALONE),
      IntLiteral(1, <<"u", "8">>),
      FloatLiteral(py_float(<<"1", ".", "5">>), None),
      StrLiteral(<<"s">>, STR),
      BytesLiteral(encode(<<"s">>), BYTES),
      WithSpan(Group(PARENTHESIS,
                     <<Ident(<<"b">>),
                       WithSpan(Punct(<<":", ":">>, JOINT), "s2")>>), "s1"),
      Group(BRACE, <<Group(BRACKET, << >>), Punct(<<".", ".">>, ALONE)>>),
      Group(BRACKET, <<Punct(<< >>, JOINT)>>) }

FlattenInputs == UNION { [1..n -> FlatTokens] : n \in 0..MaxTokens }

FlattenInit ==
    /\ items = << >>
    /\ item_i = 1
    /\ _results = << >>
    /\ _group_stack = << >>
    /\ pc = "idle"
    /\ error = NoError
    /\ ret = << >>
    /\ string = << >>
    /\ index = 0
    /\ start = 0
    /\ found_dot = FALSE
    /\ char = ""
    /\ prefix = None
    /\ quote = ""
    /\ content = << >>
    /\ opened = << >>
    /\ frames = << >>
    /\ lists = << >>
    /\ _CTX_STACK = << >>
    /\ scopes = << >>
    /\ before = << >>
    /\ call = "none"
    /\ rust_ret = None
    /\ raised = NoError
    /\ fatal = FALSE
    /\ nested = TRUE
    /\ ncalls = 0
    /\ self_tokens \in FlattenInputs
    /\ stream = << >>
    /\ flat_i = 1
    /\ flat_pc = "loop"
    /\ first = << >>
    /\ relexed = FALSE
    /\ left_open = << >>
    /\ names = << >>
    /\ origin = << >>

\* One turn of the loop: token._append_to_tokenstream(stream).
to_tokenstream_loop ==
    /\ flat_pc = "loop"
    /\ flat_i <= Len(self_tokens)
    /\ LET done_ == _append_to_tokenstream(self_tokens[flat_i]) IN
       /\ stream' = stream \o done_.ops
       /\ flat_pc' = IF done_.ok THEN "loop" ELSE "raised"
    /\ flat_i' = flat_i + 1
    /\ UNCHANGED <<self_tokens, coerce_vars, ctx_vars, rt_vars, hist_vars,
                   list_vars>>

\* return stream
to_tokenstream_return ==
    /\ flat_pc = "loop"
    /\ flat_i > Len(self_tokens)
    /\ flat_pc' = "returned"
    /\ UNCHANGED <<self_tokens, stream, flat_i, coerce_vars, ctx_vars,
                   rt_vars, hist_vars, list_vars>>

FlattenNext == to_tokenstream_loop \/ to_tokenstream_return

FlattenSpec == FlattenInit /\ [][FlattenNext]_vars

---------------------------------------------------------------------------
(* Rendering: the __str__ of Tokens and of each token class, as text.      *)

\* The character U+2205 that __str__ writes for the delimiter NONE.
EmptySetChar == "U+2205"

\* delim[0], delim[1] of Group.__str__
opening(delimiter) ==
    CASE delimiter = PARENTHESIS -> "(" [] delimiter = BRACKET -> "["
      [] delimiter = BRACE -> "{" [] OTHER -> EmptySetChar
closing(delimiter) ==
    CASE delimiter = PARENTHESIS -> ")" [] delimiter = BRACKET -> "]"
      [] delimiter = BRACE -> "}" [] OTHER -> EmptySetChar

DigitChar(d) ==
    CASE d = 0 -> "0" [] d = 1 -> "1" [] d = 2 -> "2" [] d = 3 -> "3"
      [] d = 4 -> "4" [] d = 5 -> "5" [] d = 6 -> "6" [] d = 7 -> "7"
      [] d = 8 -> "8" [] d = 9 -> "9"

\* str(n) of an int
RECURSIVE py_str(_)
py_str(n) ==
    IF n < 0 THEN <<"-">> \o py_str(0 - n)
    ELSE IF n < 10 THEN <<DigitChar(n)>>
    ELSE py_str(n \div 10) \o <<DigitChar(n % 10)>>

\* str(x) of the float m * 10^e, for the values repr writes without an
\* exponent.
py_float_str(value) ==
    LET d == py_str(value[1])
        e == value[2]
    IN  IF e >= 0 THEN d \o [k \in 1..e |-> "0"] \o <<".", "0">>
        ELSE IF Len(d) > 0 - e
        THEN SubSeq(d, 1, Len(d) + e) \o <<".">>
             \o SubSeq(d, Len(d) + e + 1, Len(d))
        ELSE <<"0", ".">> \o [k \in 1..(0 - e - Len(d)) |-> "0"] \o d

\* repr(b) of a bytes object of printable ASCII bytes
py_repr_bytes(b) == <<"b">> \o py_repr([k \in 1..Len(b) |-> b[k].byte])

RECURSIVE Tokens_str(_)

\* Group.__str__
Group_str(self) ==
    <<opening(self.delimiter), " ">> \o Tokens_str(self.tokens)
        \o <<" ", closing(self.delimiter)>>

\* str(token), by the class of the token
Token_str(token) ==
    CASE token.kind = "Group" -> Group_str(token)
      [] token.kind = "Ident" -> token.string
      [] token.kind = "Punct" -> token.chars
      [] token.kind = "IntLiteral" -> py_str(token.value) \o token.suffix
      [] token.kind = "FloatLiteral" ->
           py_float_str(token.value) \o token.suffix
      [] token.kind = "StrLiteral" -> py_repr(token.value)
      [] token.kind = "BytesLiteral" -> py_repr_bytes(token.value)

\* Tokens.__str__: " ".join(map(str, self._tokens))
Tokens_str(tokens) ==
    IF tokens = << >> THEN << >>
    ELSE IF Len(tokens) = 1 THEN Token_str(tokens[1])
    ELSE Tokens_str(Front(tokens)) \o <<" ">> \o Token_str(Last(tokens))

\* Tokens(str(tokens)) once the call on text fragments has returned tokens.
relex ==
    /\ call = "_coerce"
    /\ pc = "done"
    /\ ~relexed
    /\ \A k \in 1..Len(items) : items[k].kind = "str"
    /\ first' = ret
    /\ relexed' = TRUE
    /\ items' = <<TextItem(Tokens_str(ret))>>
    /\ item_i' = 1
    /\ _results' = << >>
    /\ _group_stack' = << >>
    /\ pc' = "items"
    /\ error' = NoError
    /\ ret' = << >>
    /\ string' = << >>
    /\ index' = 0
    /\ start' = 0
    /\ found_dot' = FALSE
    /\ char' = ""
    /\ prefix' = None
    /\ quote' = ""
    /\ content' = << >>
    /\ opened' = << >>
    /\ frames' = << >>
    /\ UNCHANGED <<ctx_vars, flat_vars, hist_vars, list_vars>>

RoundTripNext == coerce_step \/ relex

RoundTripSpec == Init /\ [][RoundTripNext]_vars

---------------------------------------------------------------------------
(* Two builders on the one _CTX_STACK of the process. Each builder runs    *)
(* `with its_list: rust(args)`, any number of times; the steps of the two  *)
(* interleave. A call of _coerce touches nothing the builders share, so a  *)
(* step of the other builder during it has the effect of the same step     *)
(* before it: the steps that interleave are __enter__, the call of rust up *)
(* to its extend, and __exit__.                                            *)

InScope(b) == \E k \in 1..Len(scopes) : scopes[k] = <<b>>

\* with its_list: (builder b enters its list)
Builder_enter(b) ==
    /\ ~InScope(b)
    /\ Tokens_enter(<<b>>)

\* rust(args) inside the with block of builder b
Builder_rust(b) ==
    /\ InScope(b)
    /\ rust(BuilderArgs(b))

\* The with block of builder b ends.
Builder_exit(b) ==
    \E k \in 1..MaxDepth : /\ k <= Len(scopes)
                            /\ scopes[k] = <<b>>
                            /\ Tokens_exit(k)

\* Each builder has made its list; nothing is entered.
BuildersInit ==
    /\ items = << >>
    /\ item_i = 1
    /\ _results = << >>
    /\ _group_stack = << >>
    /\ pc = "idle"
    /\ error = NoError
    /\ ret = << >>
    /\ string = << >>
    /\ index = 0
    /\ start = 0
    /\ found_dot = FALSE
    /\ char = ""
    /\ prefix = None
    /\ quote = ""
    /\ content = << >>
    /\ opened = << >>
    /\ frames = << >>
    /\ lists = [b \in Builders |-> << >>]
    /\ _CTX_STACK = << >>
    /\ scopes = << >>
    /\ before = << >>
    /\ call = "none"
    /\ rust_ret = None
    /\ raised = NoError
    /\ fatal = FALSE
    /\ nested = TRUE
    /\ ncalls = 0
    /\ self_tokens = << >>
    /\ stream = << >>
    /\ flat_i = 1
    /\ flat_pc = "none"
    /\ first = << >>
    /\ relexed = FALSE
    /\ left_open = << >>
    /\ names = << >>
    /\ origin = << >>

BuildersNext ==
    \/ \E b \in Builders : Builder_enter(b)
    \/ \E b \in Builders : Builder_rust(b)
    \/ \E b \in Builders : Builder_exit(b)
    \/ rust_return
    \/ coerce_step

BuildersSpec == BuildersInit /\ [][BuildersNext]_vars

---------------------------------------------------------------------------
(* Calls of _coerce on items of every kind, one call after another. *)

\* The longest tuple or list among the enumerated items.
MaxNested == 2

\* The items a tuple or list of the enumerated calls holds.
InnerItems ==
    { TextItem(<<"a">>), TextItem(<<"(">>), TextItem(<<")">>), IntItem(5),
      OtherItem }

\* The arguments Punct is constructed with, and the tokens of the
\* constructions that raise nothing.
PunctArgs ==
    { << >>, <<"+">>, <<"-", ">">>, <<"a">>, <<"+", " ">> }
      \X { ALONE, JOINT, "none" }

BuiltPuncts ==
    { Punct(a[1], a[2]) : a \in { b \in PunctArgs : Punct_init_ok(b[1], b[2]) } }

\* One item of each kind of process_one's match.
LeafItems ==
    { TokenItem(t) : t \in BuiltPuncts } \cup
    { TokenItem(Ident(<<"t">>)), IntItem(5),
      FloatItem(py_float(<<"1", ".", "5">>)),
      BytesItem("bytes", encode(<<"a", "b">>)),
      BytesItem("bytearray", encode(<<"a", "b">>)),
      BytesItem("memoryview", encode(<<"a", "b">>)),
      TextItem(<<"a">>), TextItem(<<"(">>), TextItem(<<")">>), OtherItem }

Contents == UNION { [1..k -> InnerItems] : k \in 0..MaxNested }

NestedItems ==
    { TupleItem(c) : c \in Contents } \cup { ListItem(c) : c \in Contents }
      \cup { TupleItem(<<TextItem(f)>>) : f \in Examples }
      \cup { TupleItem(<<ListItem(<<TextItem(<<"a">>)>>), IntItem(5)>>),
             ListItem(<<TextItem(<<"[">>), TupleItem(<<TextItem(<<"]">>)>>)>>) }

KindItems == LeafItems \cup NestedItems

\* The calls: one item, an item after an opening delimiter, with and without
\* the closing one, an item before text, and two items of the simple kinds.
ItemInputs ==
    { <<x>> : x \in KindItems }
      \cup { <<TextItem(<<"(">>), x>> : x \in KindItems }
      \cup { <<TextItem(<<"(">>), x, TextItem(<<")">>)>> : x \in KindItems }
      \cup { <<x, TextItem(<<"a">>)>> : x \in KindItems }
      \cup { <<x, y>> : x \in LeafItems, y \in LeafItems }
      \cup { <<TextItem(f)>> : f \in Examples }

Terminated == pc \in {"done", "error"}

\* The calls made after another call has ended.
LaterInputs ==
    { <<TextItem(<<"a">>)>>, <<TextItem(<<")">>)>>,
      <<TupleItem(<<TextItem(<<")">>)>>)>>,
      <<TextItem(<<"(">>), TupleItem(<<TextItem(<<")">>)>>)>> }

\* Tokens._coerce(args) is called after an earlier call has returned or
\* raised: the new call creates its own _results and _group_stack.
_coerce(args) ==
    /\ call = "_coerce"
    /\ Terminated
    /\ ncalls < MaxCalls
    /\ ncalls' = ncalls + 1
    /\ items' = args
    /\ item_i' = 1
    /\ _results' = << >>
    /\ _group_stack' = << >>
    /\ pc' = "items"
    /\ error' = NoError
    /\ ret' = << >>
    /\ string' = << >>
    /\ index' = 0
    /\ start' = 0
    /\ found_dot' = FALSE
    /\ char' = ""
    /\ prefix' = None
    /\ quote' = ""
    /\ content' = << >>
    /\ opened' = << >>
    /\ frames' = << >>
    /\ left_open' = _group_stack
    /\ UNCHANGED <<lists, _CTX_STACK, scopes, before, call, rust_ret, raised,
                   fatal, nested, flat_vars, rt_vars, list_vars>>

coerce_again == \E args \in LaterInputs : _coerce(args)

ItemsInit ==
    /\ items \in ItemInputs
    /\ item_i = 1
    /\ _results = << >>
    /\ _group_stack = << >>
    /\ pc = "items"
    /\ error = NoError
    /\ ret = << >>
    /\ string = << >>
    /\ index = 0
    /\ start = 0
    /\ found_dot = FALSE
    /\ char = ""
    /\ prefix = None
    /\ quote = ""
    /\ content = << >>
    /\ opened = << >>
    /\ frames = << >>
    /\ lists = << >>
    /\ _CTX_STACK = << >>
    /\ scopes = << >>
    /\ before = << >>
    /\ call = "_coerce"
    /\ rust_ret = None
    /\ raised = NoError
    /\ fatal = FALSE
    /\ nested = TRUE
    /\ ncalls = 0
    /\ self_tokens = << >>
    /\ stream = << >>
    /\ flat_i = 1
    /\ flat_pc = "none"
    /\ first = << >>
    /\ relexed = FALSE
    /\ left_open = << >>
    /\ names = << >>
    /\ origin = << >>

ItemsNext == coerce_step \/ coerce_again

ItemsSpec == ItemsInit /\ [][ItemsNext]_vars

---------------------------------------------------------------------------
(* The list operations of Tokens: ranges, append, insert, set and delete.  *)

\* The longest list of the enumerated programs.
MaxListLen == 2

\* The tokens the lists hold and the program stores.
ListTokens == { Ident(<<"a">>), Group(PARENTHESIS, <<Ident(<<"b">>)>>) }

ListValues == UNION { [1..n -> ListTokens] : n \in 0..MaxListLen }

\* list.__setitem__ and list.__delitem__ with an index past the end.
ListIndexError ==
    [type |-> "IndexError", msg |-> "list assignment index out of range"]

\* The _tokens of the object name h refers to.
ListOf(ls, h) == ls[names[h]]

\* list.insert(index, value), at the index for an index of 0 or more.
list_insert(l, at, value) ==
    IF at >= Len(l) THEN Append(l, value)
    ELSE SubSeq(l, 1, at) \o <<value>> \o SubSeq(l, at + 1, Len(l))

\* Tokens.__getitem__(slice(a, b)) of name h up to the call Tokens(*result).
Tokens_getitem(h, a, b) ==
    /\ Ready
    /\ h \in 1..Len(names)
    /\ Len(names) < MaxLists
    /\ LET result == Slice(ListOf(lists, h), a, b)
       IN  Call([k \in 1..Len(result) |-> TokenItem(result[k])])
    /\ call' = "getitem"
    /\ origin' = Append(origin, h)
    /\ UNCHANGED <<lists, _CTX_STACK, scopes, before, rust_ret, raised, fatal,
                   nested, ncalls, names>>
    /\ UNCHANGED <<flat_vars, rt_vars, hist_vars>>

\* __getitem__ returning the object it was called on.
Tokens_getitem_return_self ==
    /\ call = "getitem"
    /\ pc = "done"
    /\ names' = Append(names, names[Last(origin)])
    /\ call' = "none"
    /\ NoCall
    /\ UNCHANGED <<lists, _CTX_STACK, scopes, before, rust_ret, raised, fatal,
                   nested, ncalls, origin>>
    /\ UNCHANGED <<flat_vars, rt_vars, hist_vars>>

\* Tokens(*result) has returned: __getitem__ returns the new object.
Tokens_getitem_return ==
    /\ call = "getitem"
    /\ pc = "done"
    /\ lists' = Append(lists, ret)
    /\ names' = Append(names, Len(lists) + 1)
    /\ call' = "none"
    /\ NoCall
    /\ UNCHANGED <<_CTX_STACK, scopes, before, rust_ret, raised, fatal, nested,
                   ncalls, origin>>
    /\ UNCHANGED <<flat_vars, rt_vars, hist_vars>>

\* What a list operation leaves alone.
ListOpFrame ==
    /\ UNCHANGED <<_CTX_STACK, scopes, before, call, rust_ret, fatal, nested,
                   ncalls>>
    /\ UNCHANGED coerce_vars
    /\ UNCHANGED aux_vars

\* Tokens.append(value) on name h
Tokens_append(h, value) ==
    /\ Ready
    /\ h \in 1..Len(names)
    /\ Len(ListOf(lists, h)) < MaxListLen
    /\ lists' = [lists EXCEPT ![names[h]] = Append(@, value)]
    /\ raised' = NoError
    /\ ListOpFrame

\* Tokens.insert(index, value), at the index on name h
Tokens_insert(h, at, value) ==
    /\ Ready
    /\ h \in 1..Len(names)
    /\ Len(ListOf(lists, h)) < MaxListLen
    /\ lists' = [lists EXCEPT ![names[h]] = list_insert(@, at, value)]
    /\ raised' = NoError
    /\ ListOpFrame

\* Tokens.__setitem__(index, value), at the index on name h
Tokens_setitem(h, at, value) ==
    /\ Ready
    /\ h \in 1..Len(names)
    /\ IF at < Len(ListOf(lists, h))
       THEN /\ lists' = [lists EXCEPT ![names[h]][at + 1] = value]
            /\ raised' = NoError
       ELSE /\ raised' = ListIndexError
            /\ UNCHANGED lists
    /\ ListOpFrame

\* Tokens.__delitem__(index), at the index on name h
Tokens_delitem(h, at) ==
    /\ Ready
    /\ h \in 1..Len(names)
    /\ IF at < Len(ListOf(lists, h))
       THEN /\ lists' = [lists EXCEPT ![names[h]] = Remove(@, at + 1)]
            /\ raised' = NoError
       ELSE /\ raised' = ListIndexError
            /\ UNCHANGED lists
    /\ ListOpFrame

\* One list exists, and the program holds one name for it.
ListInit ==
    /\ items = << >>
    /\ item_i = 1
    /\ _results = << >>
    /\ _group_stack = << >>
    /\ pc = "idle"
    /\ error = NoError
    /\ ret = << >>
    /\ string = << >>
    /\ index = 0
    /\ start = 0
    /\ found_dot = FALSE
    /\ char = ""
    /\ prefix = None
    /\ quote = ""
    /\ content = << >>
    /\ opened = << >>
    /\ frames = << >>
    /\ lists \in { <<l>> : l \in ListValues }
    /\ _CTX_STACK = << >>
    /\ scopes = << >>
    /\ before = << >>
    /\ call = "none"
    /\ rust_ret = None
    /\ raised = NoError
    /\ fatal = FALSE
    /\ nested = TRUE
    /\ ncalls = 0
    /\ self_tokens = << >>
    /\ stream = << >>
    /\ flat_i = 1
    /\ flat_pc = "none"
    /\ first = << >>
    /\ relexed = FALSE
    /\ left_open = << >>
    /\ names = <<1>>
    /\ origin = <<0>>

ListNext ==
    \/ \E h \in 1..MaxLists, a \in 0..MaxListLen, b \in 0..MaxListLen :
         Tokens_getitem(h, a, b)
    \/ process_one
    \/ Return
    \/ Tokens_getitem_return
    \/ \E h \in 1..MaxLists, t \in ListTokens : Tokens_append(h, t)
    \/ \E h \in 1..MaxLists, i \in 0..MaxListLen, t \in ListTokens :
         Tokens_insert(h, i, t)
    \/ \E h \in 1..MaxLists, i \in 0..MaxListLen, t \in ListTokens :
         Tokens_setitem(h, i, t)
    \/ \E h \in 1..MaxLists, i \in 0..MaxListLen : Tokens_delitem(h, i)

ListSpec == ListInit /\ [][ListNext]_vars

---------------------------------------------------------------------------
(* Helpers of the properties. *)


\* The call whose only item is the text s.
OneText(s) == items = <<TextItem(s)>>

\* x is y with one element appended.
IsAppend(x, y) == Len(x) = Len(y) + 1 /\ SubSeq(x, 1, Len(y)) = y

\* The token emit appended last, given the stack and results after it.
LastEmitted(gs, rs) == IF gs # << >> THEN Last(Last(gs).tokens) ELSE Last(rs)

\* The number of Groups at nesting depth d (0: top level) of a token list.
RECURSIVE GroupsAt(_, _)
GroupsAt(tokens, d) ==
    IF tokens = << >> THEN 0
    ELSE LET t == Last(tokens)
             here == IF t.kind # "Group" THEN 0
                     ELSE IF d = 0 THEN 1 ELSE GroupsAt(t.tokens, d - 1)
         IN  GroupsAt(Front(tokens), d) + here

\* The step emits one token of the lexer or of a non-text item.
TokenStep ==
    \/ pc \in {"punct", "ident", "number_match", "str_emit"} /\ pc' = "parse"
    \/ pc = "items" /\ pc' = "items" /\ item_i' = item_i + 1

\* The step scans an opening / a closing delimiter and raises nothing.
AtChar(S) == pc = "parse" /\ index < Len(string) /\ At(string, index) \in S
OpeningStep == AtChar(OpeningChars) /\ pc' = "parse"
ClosingStep == AtChar(ClosingChars) /\ pc' = "parse"

\* No item is a built Group: every Group of the result comes from a delimiter.
NoBuiltGroups ==
    \A k \in 1..Len(items) :
        items[k].kind = "Token" => items[k].token.kind # "Group"

---------------------------------------------------------------------------
(* C1: every scan terminates: under fair scheduling of the one thread the   *)
(* call eventually returns or raises, whatever the fragment (10, 1u8, 0xFF *)
(* included).                                                              *)
C1_ScanTerminates == <>Terminated

---------------------------------------------------------------------------
(* C2: a token produced while the group stack is non-empty is appended to   *)
(* the innermost open Group and otherwise to the results; a closed Group   *)
(* goes to the then-innermost open Group or the results; the stack is      *)
(* carried from item to item; and when the call returns with every group   *)
(* closed, the Groups of the tree at each depth are as many as the opening *)
(* delimiters consumed at that depth.                                      *)
C2_Routing ==
    IF TokenStep
    THEN /\ Len(_group_stack') = Len(_group_stack)
         /\ IF _group_stack # << >>
            THEN /\ _results' = _results
                 /\ Front(_group_stack') = Front(_group_stack)
                 /\ Last(_group_stack').delimiter = Last(_group_stack).delimiter
                 /\ IsAppend(Last(_group_stack').tokens, Last(_group_stack).tokens)
            ELSE /\ _group_stack' = _group_stack
                 /\ IsAppend(_results', _results)
    ELSE IF ClosingStep
    THEN LET group == Last(_group_stack)
             rest == Front(_group_stack)
         IN  IF rest # << >>
             THEN /\ _results' = _results
                  /\ _group_stack' =
                       [rest EXCEPT ![Len(rest)].tokens = Append(@, group)]
             ELSE /\ _group_stack' = << >>
                  /\ _results' = Append(_results, group)
    ELSE IF OpeningStep
    THEN /\ _results' = _results
         /\ _group_stack' =
              Append(_group_stack,
                     Group(OPENING_TO_DELIMITER(At(string, index)), << >>))
    ELSE pc' # "error" => (_group_stack' = _group_stack /\ _results' = _results)

C2_GroupCount ==
    (pc = "done" /\ _group_stack = << >> /\ NoBuiltGroups) =>
        \A d \in 0..Len(opened) :
            GroupsAt(ret, d) = Cardinality({k \in 1..Len(opened) : opened[k] = d})

C2_AcrossItems ==
    (items = <<TextItem(<<"(">>), IntItem(5), TextItem(<<")">>)>> /\ pc = "done") =>
        ret = <<Group(PARENTHESIS, <<IntLiteral(5, None)>>)>>

C2_EmitRouting == [][C2_Routing]_vars /\ [](C2_GroupCount /\ C2_AcrossItems)

\* A group opened in one item received the token of the next and was closed by
\* the third.
C2_Witness ==
    /\ pc = "done"
    /\ items = <<TextItem(<<"(">>), IntItem(5), TextItem(<<")">>)>>
    /\ ret = <<Group(PARENTHESIS, <<IntLiteral(5, None)>>)>>
    /\ opened = <<0>>

---------------------------------------------------------------------------
(* C3: a closing delimiter that does not match the innermost open Group     *)
(* raises the delimiter-mismatch error; the popped Group is emitted        *)
(* nowhere (results and the rest of the stack are as before); the call     *)
(* returns nothing: once raised, it never reaches its return.              *)
C3_Mismatch ==
    /\ ( /\ AtChar(ClosingChars)
         /\ _group_stack # << >>
         /\ Last(_group_stack).delimiter # CLOSING_TO_DELIMITER(At(string, index)) )
       => /\ pc' = "error"
          /\ error' = DelimiterMismatch
          /\ _results' = _results
          /\ _group_stack' = Front(_group_stack)
          /\ ret' = ret
    /\ error' = DelimiterMismatch
       => /\ AtChar(ClosingChars)
          /\ _group_stack # << >>
          /\ Last(_group_stack).delimiter # CLOSING_TO_DELIMITER(At(string, index))
    /\ pc = "error" => pc' = "error"

C3_MismatchRaises ==
    [][C3_Mismatch]_vars /\ [](error # NoError => (pc = "error" /\ ret = << >>))

\* "a(", "[", ")": the mismatch is raised with a token in the results and a
\* group still open under the popped one.
C3_Witness ==
    /\ pc = "error"
    /\ error = DelimiterMismatch
    /\ _results # << >>
    /\ Len(_group_stack) = 1
    /\ _group_stack[1].tokens = << >>

---------------------------------------------------------------------------
(* C4: a closing delimiter scanned while the group stack is empty raises    *)
(* an error of the class of the delimiter-mismatch error.                  *)
C4_EmptyStackMismatch ==
    [][(AtChar(ClosingChars) /\ _group_stack = << >>)
         => (pc' = "error" /\ error'.type = DelimiterMismatch.type)]_vars

---------------------------------------------------------------------------
(* C5: the call never returns normally while a group is still open.        *)
C5_NoReturnWithOpenGroup == pc = "done" => _group_stack = << >>

---------------------------------------------------------------------------
(* C6: a maximal run of adjacent punctuation characters is one Punct        *)
(* token holding the run in order, and runs separated by whitespace are    *)
(* separate Alone tokens: "->" is one token, "- >" two Alone tokens.       *)

\* The maximal runs of non-whitespace characters of s, in order.
RECURSIVE Runs(_)
Runs(s) ==
    IF s = << >> THEN << >>
    ELSE LET r == Runs(Front(s))
             c == Last(s)
         IN  IF c \in Whitespace THEN r
             ELSE IF Len(s) >= 2 /\ s[Len(s) - 1] \notin Whitespace
             THEN [r EXCEPT ![Len(r)] = Append(@, c)]
             ELSE Append(r, <<c>>)

\* The start (0-based) of the maximal punctuation run of s that ends before i.
RunStart(s, i) ==
    CHOOSE a \in 0..(i - 1) :
        /\ AllIn(Slice(s, a, i), Punct_CHARS)
        /\ a = 0 \/ At(s, a - 1) \notin Punct_CHARS

\* The step in which parse_punct emits its token.
PunctEmitStep == pc = "punct" /\ pc' = "parse"

C6_RunIsOneToken ==
    PunctEmitStep =>
        LET tok == LastEmitted(_group_stack', _results') IN
        /\ tok.kind = "Punct"
        /\ tok.chars = Slice(string, RunStart(string, index), index)
        /\ index = Len(string) \/ At(string, index) \notin Punct_CHARS
        /\ Len(_group_stack') = Len(_group_stack)
        /\ IF _group_stack # << >>
           THEN IsAppend(Last(_group_stack').tokens, Last(_group_stack).tokens)
           ELSE IsAppend(_results', _results)

C6_PunctOnlyText ==
    ( /\ pc = "done"
      /\ Len(items) = 1
      /\ items[1].kind = "str"
      /\ AllIn(items[1].string, Punct_CHARS \cup Whitespace) )
    => ret = [k \in 1..Len(Runs(items[1].string)) |->
                 Punct(Runs(items[1].string)[k], ALONE)]

C6_PunctRuns == [][C6_RunIsOneToken]_vars /\ []C6_PunctOnlyText

\* "->" has been lexed to the one token of its two characters.
C6_Witness ==
    /\ pc = "done"
    /\ OneText(<<"-", ">">>)
    /\ ret = <<Punct(<<"-", ">">>, ALONE)>>

---------------------------------------------------------------------------
(* C7: the Punct token the lexer emits is Joint exactly when its run ends   *)
(* in an apostrophe that an identifier-start character follows in the same *)
(* fragment, and Alone in every other case, the end of the fragment        *)
(* included: "'a" is Punct(', Joint), Ident(a).                            *)
C7_JointIffLifetime ==
    PunctEmitStep =>
        LET tok == LastEmitted(_group_stack', _results') IN
        /\ tok.spacing \in {JOINT, ALONE}
        /\ tok.spacing = JOINT <=>
             /\ Last(tok.chars) = "'"
             /\ index < Len(string)
             /\ is_ident_start(At(string, index))

C7_Examples ==
    /\ (OneText(<<"'", "a">>) /\ pc = "done")
         => ret = <<Punct(<<"'">>, JOINT), Ident(<<"a">>)>>
    /\ (items = <<TextItem(<<"'">>), TextItem(<<"a">>)>> /\ pc = "done")
         => ret = <<Punct(<<"'">>, ALONE), Ident(<<"a">>)>>
    /\ (OneText(<<"'", "1">>) /\ pc = "done")
         => ret = <<Punct(<<"'">>, ALONE), IntLiteral(1, None)>>

C7_PunctSpacing == [][C7_JointIffLifetime]_vars /\ []C7_Examples

\* "'a" has been lexed: the apostrophe is Joint, the identifier follows it.
C7_Witness ==
    /\ pc = "done"
    /\ OneText(<<"'", "a">>)
    /\ ret = <<Punct(<<"'">>, JOINT), Ident(<<"a">>)>>

---------------------------------------------------------------------------
(* C8: 'x' is lexed to exactly one StrLiteral of Char sub-kind with         *)
(* content x.                                                              *)
C8_CharLiteral ==
    (OneText(<<"'", "x", "'">>) /\ Terminated)
        => (pc = "done" /\ ret = <<StrLiteral(<<"x">>, CHR)>>)

---------------------------------------------------------------------------
(* C9: b"a" is one BytesLiteral of Bytes sub-kind, b'a' one of Byte         *)
(* sub-kind, c"a" one StrLiteral of CStr sub-kind; the prefix letter is no *)
(* Identifier token of its own.                                            *)
C9_PrefixedLiterals ==
    /\ (OneText(<<"b", "\"", "a", "\"">>) /\ Terminated)
         => (pc = "done" /\ ret = <<BytesLiteral(encode(<<"a">>), BYTES)>>)
    /\ (OneText(<<"b", "'", "a", "'">>) /\ Terminated)
         => (pc = "done" /\ ret = <<BytesLiteral(encode(<<"a">>), BYTE)>>)
    /\ (OneText(<<"c", "\"", "a", "\"">>) /\ Terminated)
         => (pc = "done" /\ ret = <<StrLiteral(<<"a">>, CSTR)>>)

---------------------------------------------------------------------------
(* C10: a "." followed by another "." or by an identifier-start character   *)
(* is not consumed into the number: 1..10 is lexed to IntLiteral(1),       *)
(* Punct(..), IntLiteral(10) and 1.field to IntLiteral(1), Punct(.),       *)
(* Ident(field).                                                           *)
C10_DotNotConsumed ==
    /\ OneText(<<"1", ".", ".", "1", "0">>)
         ~> ( /\ pc = "done"
              /\ ret = <<IntLiteral(1, None), Punct(<<".", ".">>, ALONE),
                         IntLiteral(10, None)>> )
    /\ OneText(<<"1", ".", "f", "i", "e", "l", "d">>)
         ~> ( /\ pc = "done"
              /\ ret = <<IntLiteral(1, None), Punct(<<".">>, ALONE),
                         Ident(<<"f", "i", "e", "l", "d">>)>> )

---------------------------------------------------------------------------
(* C11: a number whose first "." is followed by a decimal digit or by the  *)
(* end of the number is returned as exactly one FloatLiteral: 1.5 as       *)
(* FloatLiteral(1.5), 1. as FloatLiteral(1.0) and 1.5f64 as                *)
(* FloatLiteral(1.5, f64), never as an integer, a "." and another number.  *)
C11_OneFloatLiteral ==
    /\ (OneText(<<"1", ".", "5">>) /\ Terminated)
         => (pc = "done"
             /\ ret = <<FloatLiteral(py_float(<<"1", ".", "5">>), None)>>)
    /\ (OneText(<<"1", ".">>) /\ Terminated)
         => (pc = "done"
             /\ ret = <<FloatLiteral(py_float(<<"1", ".">>), None)>>)
    /\ (OneText(<<"1", ".", "5", "f", "6", "4">>) /\ Terminated)
         => (pc = "done"
             /\ ret = <<FloatLiteral(py_float(<<"1", ".", "5">>),
                                     <<"f", "6", "4">>)>>)

---------------------------------------------------------------------------
(* C12: an integer with a radix prefix, underscores and an integer suffix  *)
(* is returned as exactly one IntLiteral holding the digits' value in that *)
(* radix and the suffix: the call on 0x_FF_u8 comes to return              *)
(* IntLiteral(255, u8), and the call on 0xFF IntLiteral(255).              *)
C12_RadixInteger ==
    /\ OneText(<<"0", "x", "_", "F", "F", "_", "u", "8">>)
         ~> (pc = "done" /\ ret = <<IntLiteral(255, <<"u", "8">>)>>)
    /\ OneText(<<"0", "x", "F", "F">>)
         ~> (pc = "done" /\ ret = <<IntLiteral(255, None)>>)

---------------------------------------------------------------------------
(* C13: inside a double-quoted literal a backslash followed by the quote   *)
(* is consumed as two characters, adds the quote alone to the content and  *)
(* does not close the literal; backslash, backslash, quote is consumed as  *)
(* three characters, adds a backslash and the quote and does not close it; *)
(* the literal closes only on a quote met at the cursor, which no such     *)
(* sequence has consumed. "a\"b" has content a"b, "a\\\"b" content a\"b.   *)
InDoubleQuoted == pc = "str" /\ quote = "\"" /\ index < Len(string)

C13_Step ==
    InDoubleQuoted =>
        LET c0 == At(string, index)
            c1 == IF index + 1 < Len(string) THEN <<At(string, index + 1)>>
                  ELSE << >>
            c2 == IF index + 2 < Len(string) THEN <<At(string, index + 2)>>
                  ELSE << >>
        IN  /\ (c0 = "\\" /\ c1 = <<"\"">>)
                 => /\ pc' = "str"
                    /\ content' = content \o <<"\"">>
                    /\ index' = index + 2
            /\ (c0 = "\\" /\ c1 = <<"\\">> /\ c2 = <<"\"">>)
                 => /\ pc' = "str"
                    /\ content' = content \o <<"\\", "\"">>
                    /\ index' = index + 3
            /\ (pc' = "str_emit") <=> (c0 = "\"")
            /\ (pc' = "str_emit") => (index' = index + 1 /\ content' = content)

C13_Examples ==
    /\ (OneText(<<"\"", "a", "\\", "\"", "b", "\"">>) /\ Terminated)
         => (pc = "done" /\ ret = <<StrLiteral(<<"a", "\"", "b">>, STR)>>)
    /\ (OneText(<<"\"", "a", "\\", "\\", "\"", "b", "\"">>) /\ Terminated)
         => (pc = "done"
             /\ ret = <<StrLiteral(<<"a", "\\", "\"", "b">>, STR)>>)

C13_QuoteEscapes == [][C13_Step]_vars /\ []C13_Examples

C13_Witness ==
    /\ OneText(<<"\"", "a", "\\", "\"", "b", "\"">>)
    /\ pc = "done"
    /\ ret = <<StrLiteral(<<"a", "\"", "b">>, STR)>>

---------------------------------------------------------------------------
(* C14: when the text ends inside a quoted literal the call raises the     *)
(* incomplete-literal error: the raising step emits nothing, the error     *)
(* state is final so no list is ever returned, and a fragment that is one  *)
(* opening quote with no second quote after it (such as "abc) ends in that *)
(* error with no token emitted at all.                                     *)
C14_Step ==
    /\ (pc = "str" /\ index >= Len(string))
         => /\ pc' = "error"
            /\ error' = IncompleteString
            /\ UNCHANGED <<_results, _group_stack, ret>>
    /\ (pc = "error") => (pc' = "error" /\ UNCHANGED <<error, ret>>)

\* The fragments that open a double-quoted literal and never close it.
Unclosed(s) ==
    /\ Len(s) >= 1
    /\ s[1] = "\""
    /\ \A k \in 2..Len(s) : s[k] # "\""

UnclosedCall ==
    /\ Len(items) = 1
    /\ items[1].kind = "str"
    /\ Unclosed(items[1].string)

C14_Ends ==
    /\ (error = IncompleteString) => (pc = "error" /\ ret = << >>)
    /\ (UnclosedCall /\ Terminated)
         => /\ pc = "error"
            /\ error = IncompleteString
            /\ _results = << >>
            /\ _group_stack = << >>

C14_IncompleteLiteral == [][C14_Step]_vars /\ []C14_Ends

C14_Witness ==
    /\ OneText(<<"\"", "a", "b", "c">>)
    /\ pc = "error"
    /\ error = IncompleteString
    /\ content = <<"a", "b", "c">>
    /\ _results = << >>

---------------------------------------------------------------------------
(* C15: the stack of active lists is strictly last-in first-out.  Entering *)
(* a list or a Group pushes that list (the Group's child list) on top;     *)
(* exiting pops the top and asserts it is the list exited.  While every    *)
(* exit so far has been of the innermost open scope, the stack is exactly  *)
(* the open scopes in the order they were entered, so the current list is  *)
(* the innermost open scope, and the exit of a scope leaves the stack as   *)
(* it was when that scope was entered.                                     *)
EnterStep == Len(scopes') = Len(scopes) + 1
ExitStep == Len(scopes') = Len(scopes) - 1

C15_Step ==
    /\ EnterStep
         => /\ scopes' = Append(scopes, Last(scopes'))
            /\ _CTX_STACK' = Append(_CTX_STACK, Last(scopes'))
            /\ ~fatal'
    /\ ExitStep
         => /\ _CTX_STACK' = Front(_CTX_STACK)
            /\ \E k \in 1..Len(scopes) :
                 /\ scopes' = Remove(scopes, k)
                 /\ fatal' = (Last(_CTX_STACK) # scopes[k])
    /\ (ExitStep /\ nested')
         => /\ ~fatal'
            /\ scopes' = Front(scopes)
            /\ _CTX_STACK' = Last(before)
    /\ (~EnterStep /\ ~ExitStep) => UNCHANGED <<_CTX_STACK, scopes>>

C15_Nested ==
    nested =>
        /\ _CTX_STACK = scopes
        /\ scopes # << >> => _current_ctx = Last(scopes)
        /\ \A k \in 1..Len(scopes) : before[k] = SubSeq(_CTX_STACK, 1, k - 1)

C15_StackIsLIFO == [][C15_Step]_vars /\ []C15_Nested

\* A Group returned by rust was entered below the root, a later rust call
\* put tokens into it, and it has been exited again.
C15_Witness ==
    /\ nested
    /\ call = "none"
    /\ _CTX_STACK = << <<1>> >>
    /\ scopes = << <<1>> >>
    /\ Len(lists[1]) = 1
    /\ lists[1][1].kind = "Group"
    /\ lists[1][1].tokens # << >>

---------------------------------------------------------------------------
(* C16: a rust call whose coercion returned appends the returned tokens,   *)
(* in order, at the end of the list on top of the stack; the elements that *)
(* list had, every other list and the stack itself stay as they were.  It  *)
(* returns the Group that now is the last element of the active list when  *)
(* the last token is a Group, nothing otherwise; when the active list is   *)
(* the child list of an entered Group, the tokens land in that Group       *)
(* inside its parent list, after what earlier calls put there.             *)
RustReturns == call = "rust" /\ pc = "done" /\ call' = "none"

\* The elements of a list without what is inside their Groups.
Own(ts) ==
    [k \in 1..Len(ts) |->
        IF ts[k].kind = "Group" THEN [ts[k] EXCEPT !.tokens = << >>]
        ELSE ts[k]]

IsPrefix(q, p) == Len(q) <= Len(p) /\ SubSeq(p, 1, Len(q)) = q

KnownLists ==
    {_CTX_STACK[k] : k \in 1..Len(_CTX_STACK)}
        \cup {<<r>> : r \in 1..Len(lists)}

C16_Step ==
    (RustReturns /\ _CTX_STACK # << >>) =>
        LET p == _current_ctx IN
        /\ _CTX_STACK' = _CTX_STACK
        /\ Len(lists') = Len(lists)
        /\ ListAt(lists', p) = ListAt(lists, p) \o ret
        /\ \A q \in KnownLists \ {p} :
             /\ Own(ListAt(lists', q)) = Own(ListAt(lists, q))
             /\ ~IsPrefix(q, p) => ListAt(lists', q) = ListAt(lists, q)
        /\ IF ret # << >> /\ Last(ret).kind = "Group"
           THEN /\ rust_ret' = p \o <<Len(ListAt(lists', p))>>
                /\ Last(ListAt(lists', p)) = Last(ret)
                /\ ListAt(lists', rust_ret') = Last(ret).tokens
           ELSE rust_ret' = None
        /\ Len(p) > 1 =>
             LET g == ListAt(lists, Front(p))[Last(p)]
                 h == ListAt(lists', Front(p))[Last(p)]
             IN  /\ h.kind = "Group"
                 /\ h.delimiter = g.delimiter
                 /\ h.tokens = g.tokens \o ret

C16_RustAppends == [][C16_Step]_vars

\* rust("{}") returned its Group, the program entered it, and a second
\* call put f (1) inside it and returned the Group (1).
C16_Witness ==
    /\ call = "none"
    /\ _CTX_STACK = << <<1>>, <<1, 1>> >>
    /\ lists[1] = <<Group(BRACE,
                          <<Ident(<<"f">>),
                            Group(PARENTHESIS, <<IntLiteral(1, None)>>)>>)>>
    /\ rust_ret = <<1, 1, 2>>

---------------------------------------------------------------------------
(* C17: a call of rust or of Tokens(...) whose coercion raises leaves      *)
(* nothing behind: while the coercion runs and when its exception leaves   *)
(* the call, no list gains a token (not even those emitted before the      *)
(* failing position), no list is made, and the stack, the open scopes and  *)
(* the last value of rust stay as they were; the program sees the          *)
(* exception of the coercion.                                              *)
InCall == call \in {"rust", "Tokens"}

C17_Step ==
    /\ (InCall /\ pc # "done") => UNCHANGED <<lists, _CTX_STACK, scopes>>
    /\ (InCall /\ pc = "error")
         => /\ call' = "none"
            /\ raised' = error
            /\ UNCHANGED <<lists, _CTX_STACK, scopes, rust_ret>>

C17_NoPartialResults == [][C17_Step]_vars

\* rust("a )") has failed on the ")" after emitting a: the root list is
\* still empty.
C17_Witness ==
    /\ call = "none"
    /\ raised = PopFromEmpty
    /\ ncalls = 1
    /\ lists = << << >> >>
    /\ _CTX_STACK = << <<1>> >>

---------------------------------------------------------------------------
(* C18: the turn of the loop that flattens a Punct of n >= 1 characters    *)
(* adds exactly n append_punct calls to the stream, the k-th for the k-th  *)
(* character; the calls before the last carry Joint, the last carries the  *)
(* token's own spacing, and all carry the token's span.                    *)
AtPunct ==
    /\ flat_pc = "loop"
    /\ flat_i <= Len(self_tokens)
    /\ self_tokens[flat_i].kind = "Punct"
    /\ Len(self_tokens[flat_i].chars) >= 1

C18_Step ==
    AtPunct =>
        LET token == self_tokens[flat_i]
            n == Len(token.chars)
        IN  /\ Len(stream') = Len(stream) + n
            /\ SubSeq(stream', 1, Len(stream)) = stream
            /\ flat_pc' = "loop"
            /\ \A k \in 1..n :
                 LET c == stream'[Len(stream) + k] IN
                 /\ c.op = "append_punct"
                 /\ c.char = token.chars[k]
                 /\ c.spacing = IF k < n THEN JOINT ELSE token.spacing
                 /\ c.span = token.span

C18_PunctFlattening == [][C18_Step]_vars

\* The three characters of <<= (Alone, span s2) have been flattened.
C18_Witness ==
    /\ self_tokens = <<WithSpan(Punct(<<"<", "<", "=">>, ALONE), "s2")>>
    /\ flat_pc = "returned"
    /\ stream = <<append_punct("<", JOINT, "s2"), append_punct("<", JOINT, "s2"),
                  append_punct("=", ALONE, "s2")>>

---------------------------------------------------------------------------
(* C19: flattening visits the elements of the list in order, one per turn, *)
(* and only appends to the stream; read back as tokens, the calls on the   *)
(* stream are the tokens visited so far (a Punct as its characters), and   *)
(* the child stream of each append_group is, in the same way, the list of  *)
(* that Group, with the Group's delimiter and span on the call.  The list  *)
(* itself is never changed.                                                *)
RECURSIVE TokensOf(_)
\* The token a call on the sink stands for.
TokenOf(c) ==
    CASE c.op = "append_group" ->
           WithSpan(Group(c.delimiter, TokensOf(c.stream)), c.span)
      [] c.op = "append_punct" -> WithSpan(Punct(<<c.char>>, c.spacing), c.span)
      [] c.op = "append_ident" -> WithSpan(Ident(c.string), c.span)
      [] c.op = "append_int_literal" ->
           WithSpan(IntLiteral(c.value, c.suffix), c.span)
      [] c.op = "append_float_literal" ->
           WithSpan(FloatLiteral(c.value, c.suffix), c.span)
      [] c.op = "append_str_literal" ->
           WithSpan(StrLiteral(c.value, c.type), c.span)
      [] c.op = "append_bytes_literal" ->
           WithSpan(BytesLiteral(c.value, c.type), c.span)
TokensOf(strm) == [k \in 1..Len(strm) |-> TokenOf(strm[k])]

RECURSIVE PerChar(_)
\* A list with every Punct taken apart into one Punct per character.
PerCharToken(t) ==
    CASE t.kind = "Punct" ->
           [k \in 1..Len(t.chars) |->
               [t EXCEPT !.chars = <<t.chars[k]>>,
                         !.spacing = IF k < Len(t.chars) THEN JOINT
                                     ELSE t.spacing]]
      [] t.kind = "Group" -> <<[t EXCEPT !.tokens = PerChar(t.tokens)]>>
      [] OTHER -> <<t>>
PerChar(tokens) ==
    IF tokens = << >> THEN << >>
    ELSE PerChar(Front(tokens)) \o PerCharToken(Last(tokens))

C19_Step ==
    /\ self_tokens' = self_tokens
    /\ Len(stream') >= Len(stream)
    /\ SubSeq(stream', 1, Len(stream)) = stream
    /\ flat_i' \in {flat_i, flat_i + 1}
    /\ (flat_i' = flat_i) => (stream' = stream)

C19_Visited ==
    flat_pc \in {"loop", "returned"} =>
        /\ TokensOf(stream) = PerChar(SubSeq(self_tokens, 1, flat_i - 1))
        /\ flat_pc = "returned" => flat_i = Len(self_tokens) + 1

C19_FlattenInOrder == [][C19_Step]_vars /\ []C19_Visited

\* A list of three tokens with a Group that holds a Group was flattened.
C19_Witness ==
    /\ flat_pc = "returned"
    /\ Len(self_tokens) = 3
    /\ self_tokens[1].kind = "Ident"
    /\ self_tokens[2] =
         Group(BRACE, <<Group(BRACKET, << >>), Punct(<<".", ".">>, ALONE)>>)
    /\ self_tokens[3].kind = "StrLiteral"
    /\ Len(stream) = 3
    /\ stream[2].op = "append_group"
    /\ Len(stream[2].stream) = 3

---------------------------------------------------------------------------
(* C20: round trip.  When a list built from text fragments only is         *)
(* rendered and the rendered text lexed again, the second call returns a   *)
(* list equal to the first (same kinds, contents, spacing and nesting)     *)
(* which renders to the same text.                                         *)
C20_RoundTrip ==
    (relexed /\ Terminated)
        => /\ pc = "done"
           /\ ret = first
           /\ Tokens_str(ret) = Tokens_str(first)

---------------------------------------------------------------------------
(* C21: process_one maps each item by its kind. A built token is appended  *)
(* as it is, an int and a float become an IntLiteral and a FloatLiteral    *)
(* without suffix, a byte sequence (bytes, bytearray, memoryview) becomes  *)
(* a BytesLiteral of type bytes, a tuple becomes a () Group and a list a   *)
(* [] Group of the tokens its contents are coerced to by a call of their   *)
(* own, text is parsed, and an item of any other kind raises a TypeError,  *)
(* after which the call returns nothing.                                   *)

ItemStep == pc = "items" /\ item_i <= Len(items)

\* The step appends token and moves to the next item.
Appends(token) ==
    /\ pc' = "items"
    /\ frames' = frames
    /\ item_i' = item_i + 1
    /\ LastEmitted(_group_stack', _results') = token

\* The step starts the call of _coerce on the contents of a tuple or list.
Recurses(delimiter, contents) ==
    /\ pc' = "items"
    /\ Len(frames') = Len(frames) + 1
    /\ Last(frames').delimiter = delimiter
    /\ items' = contents
    /\ item_i' = 1
    /\ _results' = << >>

NestedReturn == pc = "items" /\ item_i > Len(items) /\ frames # << >>

C21_Step ==
    /\ ItemStep =>
         LET item == items[item_i]
         IN  CASE item.kind = "Token" -> Appends(item.token)
               [] item.kind = "int" -> Appends(IntLiteral(item.value, None))
               [] item.kind = "float" ->
                    Appends(FloatLiteral(item.value, None))
               [] item.kind = "bytes" ->
                    Appends(BytesLiteral(item.value, BYTES))
               [] item.kind = "tuple" -> Recurses(PARENTHESIS, item.items)
               [] item.kind = "list" -> Recurses(BRACKET, item.items)
               [] item.kind = "str" ->
                    pc' = "parse" /\ string' = item.string /\ index' = 0
               [] OTHER -> pc' = "error" /\ error'.type = "TypeError"
    /\ NestedReturn =>
         /\ Len(frames') = Len(frames) - 1
         /\ items' = Last(frames).items
         /\ item_i' = Last(frames).item_i + 1
         /\ LastEmitted(_group_stack', _results')
              = Group(Last(frames).delimiter, _results)

C21_NoResultAfterError == pc = "error" => ret = << >>

C21_ItemKinds == [][C21_Step]_vars /\ []C21_NoResultAfterError

---------------------------------------------------------------------------
(* C25: the group stack belongs to one call of _coerce. Every call starts  *)
(* with an empty stack, so a group an earlier call left open receives no   *)
(* token of a later call; and the call made for a tuple or list item has   *)
(* an empty stack of its own, so text inside the tuple or list cannot      *)
(* close a delimiter opened in the waiting call, and the waiting call's    *)
(* open groups receive nothing but the finished Group.                     *)

CallStart == Terminated /\ pc' = "items"

NestedStart == ItemStep /\ Len(frames') = Len(frames) + 1

C25_Step ==
    /\ CallStart => _group_stack' = << >> /\ _results' = << >>
    /\ NestedStart =>
         /\ _group_stack' = << >> /\ _results' = << >>
         /\ Last(frames')._group_stack = _group_stack
         /\ Last(frames')._results = _results
    /\ (frames # << >> /\ AtChar(ClosingChars) /\ _group_stack = << >>) =>
         /\ pc' = "error" /\ error' = PopFromEmpty
         /\ frames' = frames
    /\ NestedReturn =>
         LET f == Last(frames)
             e == emit(f._group_stack, f._results,
                       Group(f.delimiter, _results))
         IN  _group_stack' = e.gs /\ _results' = e.rs

\* The stack holds only groups this call has pushed.
C25_OwnGroups ==
    /\ Len(_group_stack) <= Len(opened)
    /\ \A k \in 1..Len(frames) :
         Len(frames[k]._group_stack) <= Len(frames[k].opened)

C25_Examples ==
    /\ (items = <<TextItem(<<"a">>)>> /\ Terminated)
         => (pc = "done" /\ ret = <<Ident(<<"a">>)>>)
    /\ (items = <<TextItem(<<")">>)>> /\ Terminated)
         => (pc = "error" /\ error = PopFromEmpty)
    /\ (items = <<TextItem(<<"(">>), TupleItem(<<TextItem(<<")">>)>>)>>
          /\ Terminated)
         => (pc = "error" /\ error = PopFromEmpty)
    /\ (items = <<TextItem(<<"(">>), TupleItem(<<TextItem(<<"a">>)>>),
                  TextItem(<<")">>)>> /\ Terminated)
         => (pc = "done"
             /\ ret = <<Group(PARENTHESIS,
                              <<Group(PARENTHESIS, <<Ident(<<"a">>)>>)>>)>>)
    /\ (items = <<TupleItem(<<TextItem(<<"(">>)>>), TextItem(<<"a">>)>>
          /\ Terminated)
         => (pc = "done"
             /\ ret = <<Group(PARENTHESIS, << >>), Ident(<<"a">>)>>)

C25_StackPerCall ==
    [][C25_Step]_vars /\ [](C25_OwnGroups /\ C25_Examples)

\* After a call that ended with a group open, text inside a tuple has failed
\* to close the group the waiting call has open.
C25_Witness ==
    /\ left_open # << >>
    /\ frames # << >>
    /\ Last(frames)._group_stack # << >>
    /\ _group_stack = << >>
    /\ pc = "error"
    /\ error = PopFromEmpty

---------------------------------------------------------------------------
(* C24: when the character at the index is no whitespace, no delimiter, no *)
(* punctuation character, no identifier start, no decimal digit and starts *)
(* no quoted literal, parse raises ValueError "Invalid syntax near" with   *)
(* the repr of the characters from at most 4 before the index to at most 5 *)
(* from the index on; the index stays, nothing is emitted, and the call    *)
(* takes no further step.                                                  *)

NoSyntaxAt ==
    /\ pc = "parse"
    /\ index < Len(string)
    /\ LET c == At(string, index)
       IN  /\ ~isspace(c)
           /\ c \notin OpeningChars \cup ClosingChars \cup Punct_CHARS
           /\ ~is_ident_start(c)
           /\ ~is_dec_digit(c)
           /\ c \notin {"\"", "'"}

\* The characters of string at the 0-based positions lo .. hi - 1.
Window ==
    LET lo == IF index >= 4 THEN index - 4 ELSE 0
        hi == IF index + 5 <= Len(string) THEN index + 5 ELSE Len(string)
    IN  [k \in 1..(hi - lo) |-> string[lo + k]]

C24_Step ==
    /\ NoSyntaxAt =>
         /\ pc' = "error"
         /\ error' = [type |-> "ValueError", msg |-> "Invalid syntax near",
                      near |-> py_repr(Window)]
         /\ index' = index
         /\ _results' = _results
         /\ _group_stack' = _group_stack
    /\ pc # "error"

C24_Examples ==
    /\ (OneText(<<"a", "1", " ", "\\">>) /\ Terminated)
         => (pc = "error"
             /\ error.near = <<"'", "a", "1", " ", "\\", "\\", "'">>)
    /\ (OneText(<<"a", "b", "c", "d", "e", "\\", "f", "g", "h", "i", "j">>)
          /\ Terminated)
         => (pc = "error"
             /\ error.near = <<"'", "b", "c", "d", "e", "\\", "\\", "f", "g",
                               "h", "i", "'">>)

C24_GenericSyntaxError == [][C24_Step]_vars /\ []C24_Examples

\* The error was raised with 4 characters before the index and 5 from it on.
C24_Witness ==
    /\ pc = "error"
    /\ error.msg = "Invalid syntax near"
    /\ index >= 4
    /\ index + 5 <= Len(string)
    /\ Len(string) > 9

---------------------------------------------------------------------------
(* C23: every Punct in a token list, emitted by parse or constructed by    *)
(* the program, has at least one character, all of them of Punct.CHARS,    *)
(* and a spacing of joint or alone; a construction that would break this   *)
(* raises in __init__.                                                     *)

PunctValid(chars, spacing) ==
    /\ chars # << >>
    /\ \A k \in 1..Len(chars) : chars[k] \in Punct_CHARS
    /\ spacing \in {ALONE, JOINT}

\* Every Punct of tokens and of the Groups in it is valid.
RECURSIVE PunctsValid(_)
PunctsValid(tokens) ==
    \A k \in 1..Len(tokens) :
        /\ tokens[k].kind = "Punct"
             => PunctValid(tokens[k].chars, tokens[k].spacing)
        /\ tokens[k].kind = "Group" => PunctsValid(tokens[k].tokens)

\* The tokens of the lists of the call: a token is in them only after its
\* construction has raised nothing.
C23_PunctWellFormed ==
    /\ PunctsValid(_results)
    /\ PunctsValid(_group_stack)
    /\ PunctsValid(ret)
    /\ \A k \in 1..Len(frames) :
         PunctsValid(frames[k]._results) /\ PunctsValid(frames[k]._group_stack)

---------------------------------------------------------------------------
(* C27: __exit__ removes exactly one entry from _CTX_STACK, in order or    *)
(* not. When the assertion fails the entry popped is the top, a list other *)
(* than the one exited; the stack is one shorter than before, and the list *)
(* exited is still on it.                                                  *)

OnStack(stack, p) == \E j \in 1..Len(stack) : stack[j] = p

C27_Step ==
    ExitStep =>
        /\ Len(_CTX_STACK') = Len(_CTX_STACK) - 1
        /\ \A j \in 1..Len(_CTX_STACK') : _CTX_STACK'[j] = _CTX_STACK[j]
        /\ \E k \in 1..Len(scopes) :
             /\ scopes' = Remove(scopes, k)
             /\ IF Last(_CTX_STACK) = scopes[k]
                THEN ~fatal' /\ raised' = NoError
                ELSE /\ fatal' /\ raised' = AssertionError
                     /\ OnStack(_CTX_STACK', scopes[k])

---------------------------------------------------------------------------
(* C28: in the main module _CTX_STACK starts empty and gets entries by     *)
(* __enter__ only. A call of rust with no list entered coerces its         *)
(* arguments and then raises IndexError in _current_ctx: no list receives  *)
(* the tokens. rust returns normally only when the stack holds a list.     *)

C28_Step ==
    /\ RustReturns =>
         IF _CTX_STACK = << >>
         THEN /\ raised' = NoCurrentCtx
              /\ lists' = lists
              /\ rust_ret' = rust_ret
              /\ _CTX_STACK' = << >>
         ELSE /\ raised' = NoError
              /\ Len(ListAt(lists', Last(_CTX_STACK)))
                   = Len(ListAt(lists, Last(_CTX_STACK))) + Len(ret)
    /\ Len(_CTX_STACK') > Len(_CTX_STACK) => EnterStep

\* Every entry of the stack was put there by an __enter__ (the stub module
\* enters its root list at import).
C28_OnlyEntered == ~fatal => Len(_CTX_STACK) = Len(scopes)

C28_NoImplicitRoot == [][C28_Step]_vars /\ []C28_OnlyEntered

\* The first thing the program did in the main module was a call of rust:
\* it has failed, and there is still no list.
C28_Witness ==
    /\ call = "none"
    /\ raised = NoCurrentCtx
    /\ ncalls = 1
    /\ lists = << >>
    /\ _CTX_STACK = << >>

---------------------------------------------------------------------------
(* C22: a range of a Tokens object is a new Tokens object holding the      *)
(* selected tokens in order. An append, insert, set or delete on the       *)
(* object returned leaves the length and the elements of the object the    *)
(* range was taken from unchanged, and the other way round.                *)

\* The tokens of l at the 0-based positions a .. b - 1 that exist.
Selected(l, a, b) ==
    LET hi == IF b < Len(l) THEN b ELSE Len(l)
    IN  [k \in 1..(IF hi > a THEN hi - a ELSE 0) |-> l[a + k]]

RangeCall == call = "none" /\ call' = "getitem"
RangeReturns == call = "getitem" /\ call' = "none"
ListOpStep == call = "none" /\ call' = "none"

\* Name h or g is the range of the other.
Related(h, g) == origin[h] = g \/ origin[g] = h

C22_Step ==
    /\ RangeCall =>
         /\ lists' = lists
         /\ \E a, b \in 0..MaxListLen :
              LET sel == Selected(ListOf(lists, Last(origin')), a, b)
              IN  items' = [k \in 1..Len(sel) |-> TokenItem(sel[k])]
    /\ RangeReturns =>
         /\ Len(names') = Len(names) + 1
         /\ \A h \in 1..Len(names) :
              /\ names'[h] = names[h]
              /\ Last(names') # names[h]
              /\ lists'[names[h]] = lists[names[h]]
         /\ lists'[Last(names')] = [k \in 1..Len(items) |-> items[k].token]
    /\ ListOpStep =>
         /\ names' = names
         /\ \A h, g \in 1..Len(names) :
              (Related(h, g) /\ ListOf(lists', h) # ListOf(lists, h))
                 => ListOf(lists', g) = ListOf(lists, g)

\* A range and the object it was taken from are two objects.
C22_TwoObjects ==
    \A h, g \in 1..Len(names) : Related(h, g) => names[h] # names[g]

C22_RangeIsNewList == [][C22_Step]_vars /\ []C22_TwoObjects

\* The range of a non-empty list has been taken, and the object returned
\* has grown longer than the list it was taken from.
C22_Witness ==
    /\ call = "none"
    /\ Len(names) = 2
    /\ origin[2] = 1
    /\ ListOf(lists, 1) # << >>
    /\ Len(ListOf(lists, 2)) > Len(ListOf(lists, 1))

---------------------------------------------------------------------------
(* C26: _CTX_STACK is one stack for all builders of the process. When two  *)
(* builders, each running a correctly nested enter, rust, exit sequence,   *)
(* interleave their steps, rust appends to the list on top of the stack,   *)
(* which may be the list the other builder entered, and __exit__ pops the  *)
(* top, which may be the other builder's list, and then fails its          *)
(* assertion. A builder is served its own list whenever it is the only one *)
(* inside a with block.                                                    *)

\* The builder whose with block ends in this step.
Exiting(b) == InScope(b) /\ ~InScope(b)'

C26_Step ==
    /\ RustReturns =>
         LET top == Last(_CTX_STACK)[1]
             other == CHOOSE b \in Builders : b # top
         IN  /\ lists'[top] = lists[top] \o ret
             /\ lists'[other] = lists[other]
             /\ top # Caller => Len(scopes) = 2
             /\ Len(scopes) = 1 => top = Caller
    /\ \A b \in Builders :
         (ExitStep /\ Exiting(b)) =>
             /\ _CTX_STACK' = Front(_CTX_STACK)
             /\ fatal' = (Last(_CTX_STACK) # <<b>>)
             /\ fatal' => (raised' = AssertionError /\ Len(scopes) = 2)
             /\ Len(scopes) = 1 => ~fatal'

C26_SharedStack == [][C26_Step]_vars

\* Builder 1 entered, builder 2 entered, the call of rust of builder 1 put
\* its tokens into the list of builder 2, and the exit of builder 1 popped
\* the list of builder 2 and failed.
C26_Witness ==
    /\ fatal
    /\ raised = AssertionError
    /\ lists[1] = << >>
    /\ Len(lists[2]) = 2
    /\ lists[2][1] = Ident(<<"f">>)
    /\ _CTX_STACK = << <<1>> >>
    /\ scopes = << <<2>> >>

====
